---------------------------- MODULE Spec2Model ----------------------------
(***************************************************************************)
(* Interactive selection plugins of botkube-interactive.                   *)
(*                                                                         *)
(* The repository holds several revisions of the same executor plugin.     *)
(* The revisions modelled here:                                            *)
(*   msg  (src/unnamed/part_001): selection store e.state, schema from a   *)
(*        script's --json-help output;                                     *)
(*   job  (src/cmd/job/main.go): stateless, selection read from the Slack  *)
(*        block-action state, schema from cronjob annotations;             *)
(*   msg4 (src/unnamed/part_004, first program): the store holds the first *)
(*        selection only, one fixed script supplies the schema;            *)
(*   msg2 (src/unnamed/part_002): two fixed dropdowns, first and second,   *)
(*        and a Run button once both are selected;                         *)
(*   cmdmsg (src/cmd/msg/main.go): job dropdown, parameter dropdown and    *)
(*        Run button, one per step;                                        *)
(*   snippet (src/cmd/snippet/main.go): runs one command and delivers its  *)
(*        output to Slack as an attachment.                                *)
(* The calls of msg are also followed step by step, two goroutines side by *)
(* side on the executor's map (SpecMsgConcurrent, SpecMsgLive).            *)
(*                                                                         *)
(* A Go string is modelled as a sequence of atoms; the atom " " is the     *)
(* only white space.  An atom stands for a run of non-space characters.    *)
(***************************************************************************)
EXTENDS Integers, Sequences, FiniteSets, TLC

\* ------------------------------------------------------------------------
\* Strings
\* ------------------------------------------------------------------------
SP == " "
EMPTY == <<>>

\* a one-atom string
S(a) == <<a>>

\* fmt.Sprintf("%s %s", a, b)
Sprintf_s_s(a, b) == a \o <<SP>> \o b

\* fmt.Sprintf("%s-%s", a, b)
Sprintf_s_dash_s(a, b) == a \o <<"-">> \o b

\* strings.HasPrefix
HasPrefix(s, p) == Len(s) >= Len(p) /\ SubSeq(s, 1, Len(p)) = p

\* variant of TrimPrefix that leaves the prefix in place
TrimPrefix_keep(s, p) == s

\* strings.TrimPrefix
TrimPrefix(s, p) == IF HasPrefix(s, p) THEN SubSeq(s, Len(p) + 1, Len(s)) ELSE s

RECURSIVE FieldsAcc(_, _, _)
FieldsAcc(s, cur, acc) ==
    IF s = <<>>
    THEN IF cur = <<>> THEN acc ELSE Append(acc, cur)
    ELSE IF Head(s) = SP
         THEN FieldsAcc(Tail(s), <<>>, IF cur = <<>> THEN acc ELSE Append(acc, cur))
         ELSE FieldsAcc(Tail(s), Append(cur, Head(s)), acc)

\* strings.Fields: the maximal runs of non-space atoms
Fields(s) == FieldsAcc(s, <<>>, <<>>)

RECURSIVE Join(_, _)
\* strings.Join
Join(parts, sep) ==
    IF parts = <<>> THEN <<>>
    ELSE IF Len(parts) = 1 THEN parts[1]
    ELSE parts[1] \o sep \o Join(Tail(parts), sep)

\* strings.TrimSpace
RECURSIVE TrimLeft(_)
TrimLeft(s) == IF s # <<>> /\ Head(s) = SP THEN TrimLeft(Tail(s)) ELSE s
RECURSIVE TrimRight(_)
TrimRight(s) ==
    IF s # <<>> /\ s[Len(s)] = SP THEN TrimRight(SubSeq(s, 1, Len(s) - 1)) ELSE s
TrimSpace(s) == TrimRight(TrimLeft(s))

\* parts[from:] of a Go slice (from is 0-based)
SliceFrom(parts, from) == SubSeq(parts, from + 1, Len(parts))

\* a Go map: a function whose domain is the set of keys present
EmptyMap == [k \in {} |-> <<>>]
Has(m, k) == k \in DOMAIN m
\* m[k] of a map[string]string: the zero value "" when the key is absent
Get(m, k) == IF k \in DOMAIN m THEN m[k] ELSE EMPTY
Put(m, k, v) == [x \in (DOMAIN m) \cup {k} |-> IF x = k THEN v ELSE m[x]]

\* a *api.OptionItem: nil, or the option's value
NilOption == [set |-> FALSE, value |-> EMPTY]
Option(v) == [set |-> TRUE, value |-> v]


\* ------------------------------------------------------------------------
\* State
\* ------------------------------------------------------------------------
VARIABLES
    state,      \* msg: MsgExecutor.state, session id -> (key -> value)
    proc,       \* "up", or "dead" once the plugin process has exited
    out,        \* the response of the request being answered
    req,        \* the request being answered: conversation, command, Slack state
    jobDetails, \* job: the stateDetails of the request, as Execute leaves them
    exec,       \* job: the cluster commands the request has run
    clusterUp,  \* job: whether kubectl reaches the cluster
    handlers,   \* msg: the Execute calls running side by side, one goroutine each
    created,    \* job: the names of the jobs the run dispatches have applied, in order
    files       \* job: the files Execute has written and not deleted

vars == <<state, proc, out, req, jobDetails, exec, clusterUp, handlers, created, files>>

\* the conversations (chat threads / users) the host serves with one plugin
Conv == {"A", "B"}

\* ------------------------------------------------------------------------
\* Responses
\* ------------------------------------------------------------------------
NoOut ==
    [kind |-> "none", text |-> EMPTY, first |-> NilOption,
     selects |-> <<>>, inputs |-> <<>>, run |-> <<>>]

\* api.NewCodeBlockMessage(text, true)
CodeBlockMessage(text) == [NoOut EXCEPT !.kind = "code", !.text = text]

\* log.Fatalf: the message is logged and the process exits
Fatal(text) == [NoOut EXCEPT !.kind = "fatal", !.text = text]

\* a run-time panic of the handler goroutine: the process exits
Panic(text) == [NoOut EXCEPT !.kind = "panic", !.text = text]

\* the terminal section of showBothSelects: code preview and Run button
RunSection(code) == [preview |-> code, button |-> code]

\* ------------------------------------------------------------------------
\* msg (src/unnamed/part_001): environment
\* ------------------------------------------------------------------------
msg_pluginName == S("msg")

\* an Option of a script's --json-help output
Opt(flags, type, values, default) ==
    [flags |-> flags, type |-> type, values |-> values, default |-> default,
     description |-> flags[1]]

\* the regular files of /scripts, as os.ReadDir lists them
msg_ScriptDir == << S("backup-job"), S("broken"), S("deploy"), S("report") >>

\* what `sh /scripts/<name> --json-help` prints, per script
msg_ScriptOptions(name) ==
    CASE name = S("backup-job") ->
            << Opt(<<S("-n")>>, "text", <<>>, EMPTY),
               Opt(<<S("-i")>>, "bool", <<>>, S("false")) >>
      [] name = S("deploy") ->
            << Opt(<<S("-e"), S("--env")>>, "dropdown", <<S("dev"), S("prod")>>, S("dev")),
               Opt(<<S("-t")>>, "text", <<>>, S("x")) >>
      [] name = S("report") ->
            << Opt(<<S("-h"), S("--help")>>, "bool", <<>>, EMPTY),
               Opt(<<S("-e")>>, "dropdown", <<S("dev"), S("prod")>>, EMPTY),
               Opt(<<S("-v")>>, "bool", <<>>, EMPTY) >>
      [] OTHER -> <<>>

\* runScript: the parsed output, or an error when the script cannot be run
msg_runScript(scriptName) ==
    IF /\ \E i \in 1..Len(msg_ScriptDir) : msg_ScriptDir[i] = scriptName
       /\ scriptName # S("broken")      \* this script exits non-zero
    THEN [err |-> FALSE, options |-> msg_ScriptOptions(scriptName)]
    ELSE [err |-> TRUE, options |-> <<>>]

\* getFileOptions: one option per directory entry
msg_getFileOptions == msg_ScriptDir


\* ------------------------------------------------------------------------
\* msg (src/unnamed/part_001): the plugin
\* ------------------------------------------------------------------------
\* api.MessageBotNamePlaceholder
MessageBotNamePlaceholder == S("{{BotName}}")

\* cmdPrefix: fmt.Sprintf("%s %s %s", api.MessageBotNamePlaceholder, pluginName, cmd)
msg_cmdPrefix(cmd) ==
    Sprintf_s_s(Sprintf_s_s(MessageBotNamePlaceholder, msg_pluginName), cmd)

\* the key of the first (target) selection in a session's map
first == S("first")

\* the hard-wired session id of Execute
msg_sessionID == S("default_session")

\* variant of parseCommand taking the plugin name for the action
parseCommand_shifted(cmd) ==
    LET parts == Fields(cmd)
    IN IF Len(parts) > 1
       THEN [action |-> parts[1], value |-> Join(SliceFrom(parts, 1), <<SP>>)]
       ELSE [action |-> EMPTY, value |-> EMPTY]

\* parseCommand: action = parts[1], value = the other parts joined
parseCommand(cmd) ==
    LET parts == Fields(cmd)
    IN IF Len(parts) > 1
       THEN [action |-> parts[2], value |-> Join(SliceFrom(parts, 2), <<SP>>)]
       ELSE [action |-> EMPTY, value |-> EMPTY]

\* the option values of a bool / dropdown select: "flag value" each
msg_dropdownOptions(option) ==
    LET values == IF option.type = "bool" THEN <<S("true"), S("false")>>
                  ELSE option.values
    IN [i \in 1..Len(values) |-> Sprintf_s_s(option.flags[1], values[i])]

\* allSelectionsMade: every option but -h has a non-empty entry
RECURSIVE msg_allSelectionsMade(_, _)
msg_allSelectionsMade(st, options) ==
    IF options = <<>> THEN TRUE
    ELSE LET option == Head(options)
         IN IF option.flags[1] = S("-h")
            THEN msg_allSelectionsMade(st, Tail(options))
            ELSE IF Get(st, Sprintf_s_dash_s(Get(st, first), option.flags[1])) = EMPTY
                 THEN FALSE
                 ELSE msg_allSelectionsMade(st, Tail(options))

\* variant of msg_commandParts that walks the options last to first
RECURSIVE msg_commandParts_reversed(_, _)
msg_commandParts_reversed(st, options) ==
    IF options = <<>> THEN <<>>
    ELSE LET option == options[Len(options)]
             flagKey == Sprintf_s_dash_s(Get(st, first), option.flags[1])
             rest == msg_commandParts_reversed(st, SubSeq(options, 1, Len(options) - 1))
         IN IF Has(st, flagKey) /\ st[flagKey] # EMPTY
            THEN <<st[flagKey]>> \o rest
            ELSE rest

\* the loop of buildFinalCommand: the stored values in option order
RECURSIVE msg_commandParts(_, _)
msg_commandParts(st, options) ==
    IF options = <<>> THEN <<>>
    ELSE LET option == Head(options)
             flagKey == Sprintf_s_dash_s(Get(st, first), option.flags[1])
             rest == msg_commandParts(st, Tail(options))
         IN IF Has(st, flagKey) /\ st[flagKey] # EMPTY
            THEN <<st[flagKey]>> \o rest
            ELSE rest

\* buildFinalCommand
msg_buildFinalCommand(st, options) ==
    LET head == IF Has(st, first) THEN <<st[first]>> ELSE <<>>
    IN Sprintf_s_s(S("run"), Join(head \o msg_commandParts(st, options), <<SP>>))

\* variant of msg_renderOptions that pre-selects the default only in the
\* render that stores it
RECURSIVE msg_renderOptions_fresh(_, _)
msg_renderOptions_fresh(options, acc) ==
    IF options = <<>> THEN acc
    ELSE LET option == Head(options)
             flag == option.flags[1]
             flagKey == Sprintf_s_dash_s(Get(acc.state, first), flag)
             isSelect == option.type = "bool" \/ option.type = "dropdown"
             fresh == isSelect /\ ~Has(acc.state, flagKey) /\ option.default # EMPTY
             st1 == IF fresh
                    THEN Put(acc.state, flagKey, Sprintf_s_s(flag, option.default))
                    ELSE acc.state
             select == [name |-> option.description,
                        command |-> msg_cmdPrefix(Sprintf_s_s(S("select_dynamic"), flagKey)),
                        options |-> msg_dropdownOptions(option),
                        initial |-> IF fresh
                                    THEN Option(Sprintf_s_s(flag, option.default))
                                    ELSE NilOption]
             input == [command |-> EMPTY, text |-> S("Filter output")]
         IN IF flag = S("-h")
            THEN msg_renderOptions_fresh(Tail(options), acc)
            ELSE msg_renderOptions_fresh(Tail(options),
                    [state |-> st1,
                     selects |-> IF isSelect THEN Append(acc.selects, select)
                                 ELSE acc.selects,
                     inputs |-> IF option.type = "text" THEN Append(acc.inputs, input)
                                ELSE acc.inputs])

\* variant of msg_renderOptions that stores the default whether or not the
\* map has an entry
RECURSIVE msg_renderOptions_overwrite(_, _)
msg_renderOptions_overwrite(options, acc) ==
    IF options = <<>> THEN acc
    ELSE LET option == Head(options)
             flag == option.flags[1]
             flagKey == Sprintf_s_dash_s(Get(acc.state, first), flag)
             isSelect == option.type = "bool" \/ option.type = "dropdown"
             st1 == IF isSelect /\ option.default # EMPTY
                    THEN Put(acc.state, flagKey, Sprintf_s_s(flag, option.default))
                    ELSE acc.state
             select == [name |-> option.description,
                        command |-> msg_cmdPrefix(Sprintf_s_s(S("select_dynamic"), flagKey)),
                        options |-> msg_dropdownOptions(option),
                        initial |-> IF option.default # EMPTY
                                    THEN Option(Sprintf_s_s(flag, option.default))
                                    ELSE NilOption]
             input == [command |-> EMPTY, text |-> S("Filter output")]
         IN IF flag = S("-h")
            THEN msg_renderOptions_overwrite(Tail(options), acc)
            ELSE msg_renderOptions_overwrite(Tail(options),
                    [state |-> st1,
                     selects |-> IF isSelect THEN Append(acc.selects, select)
                                 ELSE acc.selects,
                     inputs |-> IF option.type = "text" THEN Append(acc.inputs, input)
                                ELSE acc.inputs])

\* the loop of showBothSelects over scriptOutput.Options; acc carries the
\* session map (defaults are stored into it) and the elements built so far
RECURSIVE msg_renderOptions(_, _)
msg_renderOptions(options, acc) ==
    IF options = <<>> THEN acc
    ELSE LET option == Head(options)
             flag == option.flags[1]
             flagKey == Sprintf_s_dash_s(Get(acc.state, first), flag)
             isSelect == option.type = "bool" \/ option.type = "dropdown"
             st1 == IF isSelect /\ ~Has(acc.state, flagKey) /\ option.default # EMPTY
                    THEN Put(acc.state, flagKey, Sprintf_s_s(flag, option.default))
                    ELSE acc.state
             select == [name |-> option.description,
                        command |-> msg_cmdPrefix(Sprintf_s_s(S("select_dynamic"), flagKey)),
                        options |-> msg_dropdownOptions(option),
                        initial |-> IF option.default # EMPTY
                                    THEN Option(Sprintf_s_s(flag, option.default))
                                    ELSE NilOption]
             input == [command |-> EMPTY, text |-> S("Filter output")]
         IN IF flag = S("-h")
            THEN msg_renderOptions(Tail(options), acc)
            ELSE msg_renderOptions(Tail(options),
                    [state |-> st1,
                     selects |-> IF isSelect THEN Append(acc.selects, select)
                                 ELSE acc.selects,
                     inputs |-> IF option.type = "text" THEN Append(acc.inputs, input)
                                ELSE acc.inputs])

\* showBothSelects(state): the session map after the call, and the response
msg_showBothSelects(st) ==
    LET scriptOutput == msg_runScript(Get(st, first))
        firstSelect == [name |-> S("Job Name"),
                        command |-> msg_cmdPrefix(S("select_first")),
                        options |-> msg_getFileOptions,
                        initial |-> Option(Get(st, first))]
        r == msg_renderOptions(scriptOutput.options,
                               [state |-> st, selects |-> <<firstSelect>>, inputs |-> <<>>])
    IN IF scriptOutput.err
       THEN [state |-> st, out |-> Fatal(S("Error running script"))]
       ELSE [state |-> r.state,
             out |-> [kind |-> "ui",
                      text |-> S("You've selected from the dropdowns."),
                      first |-> Option(Get(st, first)),
                      selects |-> r.selects,
                      inputs |-> r.inputs,
                      run |-> IF msg_allSelectionsMade(r.state, scriptOutput.options)
                              THEN <<RunSection(msg_buildFinalCommand(r.state, scriptOutput.options))>>
                              ELSE <<>>]]

\* initialMessages: the first dropdown alone
msg_initialMessages ==
    [NoOut EXCEPT !.kind = "initial",
                  !.text = S("Select a file from the dropdown."),
                  !.selects = << [name |-> S("Job Name"),
                                  command |-> msg_cmdPrefix(S("select_first")),
                                  options |-> msg_getFileOptions,
                                  initial |-> NilOption] >>]


\* variant of msg_selectFirst that resets the map on every select_first
msg_selectFirst_always(sess, value) == Put(EmptyMap, first, value)

\* variant of msg_selectFirst without the reset: the entries of the previous
\* target stay in the map
msg_selectFirst_keep(sess, value) == Put(sess, first, value)

\* case "select_first": a target other than the stored one deletes every key
\* of the session map, then the target is stored
msg_selectFirst(sess, value) ==
    Put(IF Get(sess, first) # value THEN EmptyMap ELSE sess, first, value)

\* Execute of part_001 on the executor's map e.state: the map after the call
\* and the response (a fatal or panic response ends the process)
msg_Execute(e_state, cmd, interactive) ==
    LET pc == parseCommand(cmd)
        st0 == IF Has(e_state, msg_sessionID) THEN e_state
               ELSE Put(e_state, msg_sessionID, EmptyMap)
        sess == st0[msg_sessionID]
    IN IF ~interactive
       THEN [state |-> e_state,
             out |-> CodeBlockMessage(S("Interactivity for this platform is not supported"))]
       ELSE IF pc.action = S("select_first")
       THEN LET r == msg_showBothSelects(msg_selectFirst(sess, pc.value))
            IN [state |-> Put(st0, msg_sessionID, r.state), out |-> r.out]
       ELSE IF pc.action = S("select_dynamic")
       THEN IF Fields(pc.value) = <<>>
            THEN [state |-> st0, out |-> Panic(S("index out of range [0] with length 0"))]
            ELSE LET flag == Fields(pc.value)[1]
                     r == msg_showBothSelects(
                             Put(sess, flag, TrimPrefix(pc.value, flag \o <<SP>>)))
                 IN [state |-> Put(st0, msg_sessionID, r.state), out |-> r.out]
       ELSE IF TrimSpace(cmd) = msg_pluginName
       THEN [state |-> st0, out |-> msg_initialMessages]
       ELSE [state |-> st0,
             out |-> CodeBlockMessage(Sprintf_s_s(S("Plain command:"), cmd))]

\* ------------------------------------------------------------------------
\* msg4 (src/unnamed/part_004, first program)
\* ------------------------------------------------------------------------
\* what the one script runScript invokes prints for --json-help
msg4_ScriptOptions ==
    << Opt(<<S("-h"), S("--help")>>, "dropdown", <<>>, EMPTY),
       Opt(<<S("-e"), S("--env")>>, "dropdown", <<S("dev"), S("prod")>>, EMPTY),
       Opt(<<S("-s")>>, "dropdown", <<S("eu"), S("us")>>, EMPTY) >>

\* runScript: the script name is not used; scriptOk tells whether the fixed
\* script ran and printed its description
msg4_runScript(scriptName, scriptOk) ==
    IF scriptOk THEN [err |-> FALSE, options |-> msg4_ScriptOptions]
    ELSE [err |-> TRUE, options |-> <<>>]

\* the loop of showBothSelects: one dropdown per option but -h, none of
\* them with a command
RECURSIVE msg4_renderOptions(_, _)
msg4_renderOptions(options, selects) ==
    IF options = <<>> THEN selects
    ELSE LET option == Head(options)
             select == [name |-> option.description,
                        command |-> EMPTY,
                        options |-> [i \in 1..Len(option.values) |->
                                        Sprintf_s_s(option.flags[1], option.values[i])],
                        initial |-> NilOption]
         IN IF option.flags[1] = S("-h")
            THEN msg4_renderOptions(Tail(options), selects)
            ELSE msg4_renderOptions(Tail(options), Append(selects, select))

\* showBothSelects(firstSelection): the Run section closes every plan
msg4_showBothSelects(firstSelection, scriptOk) ==
    LET scriptOutput == msg4_runScript(firstSelection, scriptOk)
        firstSelect == [name |-> S("Job Name"),
                        command |-> msg_cmdPrefix(S("select_first")),
                        options |-> msg_getFileOptions,
                        initial |-> Option(firstSelection)]
        code == Sprintf_s_s(S("run"), firstSelection)
    IN IF firstSelection # EMPTY /\ scriptOutput.err
       THEN Fatal(S("Error running script"))
       ELSE [kind |-> "ui",
             text |-> S("You've selected from the first dropdown."),
             first |-> Option(firstSelection),
             selects |-> IF firstSelection # EMPTY
                         THEN msg4_renderOptions(scriptOutput.options, <<firstSelect>>)
                         ELSE <<firstSelect>>,
             inputs |-> <<>>,
             run |-> <<RunSection(code)>>]

\* Execute of part_004: the map after the call and the response
msg4_Execute(e_state, cmd, interactive, scriptOk) ==
    LET pc == parseCommand(cmd)
        st0 == IF Has(e_state, msg_sessionID) THEN e_state
               ELSE Put(e_state, msg_sessionID, EmptyMap)
        st1 == Put(st0, msg_sessionID, Put(st0[msg_sessionID], first, pc.value))
    IN IF ~interactive
       THEN [state |-> e_state,
             out |-> CodeBlockMessage(S("Interactivity for this platform is not supported"))]
       ELSE IF pc.action = S("select_first")
       THEN [state |-> st1, out |-> msg4_showBothSelects(pc.value, scriptOk)]
       ELSE IF TrimSpace(cmd) = msg_pluginName
       THEN [state |-> st0, out |-> msg_initialMessages]
       ELSE [state |-> st0,
             out |-> CodeBlockMessage(Sprintf_s_s(S("Plain command:"), cmd))]

\* ------------------------------------------------------------------------
\* job (src/cmd/job/main.go): environment
\* ------------------------------------------------------------------------
job_pluginName == S("job")

\* an Arg of a cronjob's botkubeJobArgs annotation
Arg(flag, type, values, default) ==
    [flag |-> flag, type |-> type, values |-> values, default |-> default,
     description |-> flag]

\* the cronjobs of the cluster that carry the botkubeJobArgs annotation
job_CronJobs ==
    << [name |-> S("backup-job"), namespace |-> S("default"),
        args |-> << Arg(S("-n"), "text", <<>>, EMPTY),
                    Arg(S("-i"), "bool", <<>>, S("false")) >>],
       [name |-> S("deploy"), namespace |-> S("ops"),
        args |-> << Arg(S("-e"), "dropdown", <<S("dev"), S("prod")>>, S("dev")),
                    Arg(S("-t"), "text", <<>>, S("x")) >>],
       [name |-> S("report"), namespace |-> S("ops"),
        args |-> << Arg(S("-h"), "bool", <<>>, EMPTY),
                    Arg(S("-e"), "dropdown", <<S("dev"), S("prod")>>, EMPTY) >>] >>

\* getBotkubeJobs: the annotated cronjobs; nothing when kubectl fails, since
\* the error and the empty output are ignored
job_getBotkubeJobs(up) == IF up THEN job_CronJobs ELSE <<>>

\* ------------------------------------------------------------------------
\* job: the plugin
\* ------------------------------------------------------------------------
job_cmdPrefix(cmd) ==
    Sprintf_s_s(Sprintf_s_s(MessageBotNamePlaceholder, job_pluginName), cmd)

\* a slack.BlockAction of the block-action state: the typed text (Value) and
\* the chosen option (SelectedOption.Value)
Act(value, selected) == [value |-> value, selected |-> selected]

\* stateDetails{}: no job, no params
job_noDetails == [job |-> EMPTY, params |-> EmptyMap]

\* the key extractStateDetails derives from an action id
job_idFields(id) == Fields(TrimPrefix(id, job_pluginName))

\* the block-action state of a request: nil, or a map action id -> Act
NilSlackState == [nil |-> TRUE, values |-> EmptyMap]
SlackState(values) == [nil |-> FALSE, values |-> values]

\* extractStateDetails; the action ids of a message are distinct and so are
\* the keys they name, so the order of the map iteration does not matter
job_extractStateDetails(slackState) ==
    IF slackState.nil THEN job_noDetails
    ELSE LET acts == slackState.values
             ids == DOMAIN acts
             firstIds == {id \in ids : job_idFields(id)[1] = S("select_first")}
             dynIds == {id \in ids : /\ job_idFields(id)[1] = S("select_dynamic")
                                     /\ \/ acts[id].value # EMPTY
                                        \/ acts[id].selected # EMPTY}
             idOf(key) == CHOOSE id \in dynIds : job_idFields(id)[2] = key
         IN [job |-> IF firstIds = {} THEN EMPTY
                     ELSE acts[CHOOSE id \in firstIds : TRUE].selected,
             params |-> [key \in {job_idFields(id)[2] : id \in dynIds} |->
                            IF acts[idOf(key)].value # EMPTY
                            THEN acts[idOf(key)].value
                            ELSE acts[idOf(key)].selected]]

\* variant of job_dropdownOptions whose option values are the values alone
job_dropdownOptions_bare(option) ==
    IF option.type = "bool" THEN <<S("true"), S("false")>> ELSE option.values

\* the option values of a bool / dropdown select: "flag value" each
job_dropdownOptions(option) ==
    LET values == IF option.type = "bool" THEN <<S("true"), S("false")>>
                  ELSE option.values
    IN [i \in 1..Len(values) |-> Sprintf_s_s(option.flag, values[i])]

\* allSelectionsMade: every option has a non-empty entry
RECURSIVE job_allSelectionsMade(_, _)
job_allSelectionsMade(details, options) ==
    IF options = <<>> THEN TRUE
    ELSE IF Get(details.params, Sprintf_s_dash_s(details.job, Head(options).flag)) = EMPTY
         THEN FALSE
         ELSE job_allSelectionsMade(details, Tail(options))

\* the result of an assembly step: the parts, or a run-time panic
Parts(parts) == [panic |-> FALSE, parts |-> parts]
PartsPanic == [panic |-> TRUE, parts |-> <<>>]

\* variant of job_commandPart that passes the stored value on as it is
job_commandPart_verbatim(option, details) ==
    Parts(<<Get(details.params, Sprintf_s_dash_s(details.job, option.flag))>>)

\* the part one option adds to the command; indexing the fields of a bool's
\* stored value panics when it has fewer than two fields
job_commandPart(option, details) ==
    LET stored == Get(details.params, Sprintf_s_dash_s(details.job, option.flag))
    IN IF option.type = "bool"
       THEN IF Len(Fields(stored)) < 2 THEN PartsPanic
            ELSE IF Fields(stored)[2] = S("true") THEN Parts(<<Fields(stored)[1]>>)
            ELSE Parts(<<>>)
       ELSE Parts(<<Sprintf_s_s(option.flag, stored)>>)

\* the loop of buildFinalCommand: the parts in option order
RECURSIVE job_commandParts(_, _)
job_commandParts(options, details) ==
    IF options = <<>> THEN Parts(<<>>)
    ELSE LET part == job_commandPart(Head(options), details)
             rest == job_commandParts(Tail(options), details)
         IN IF part.panic \/ rest.panic THEN PartsPanic
            ELSE Parts(part.parts \o rest.parts)

\* buildFinalCommand: [panic, code]
job_buildFinalCommand(options, namespace, details) ==
    LET r == job_commandParts(options, details)
    IN [panic |-> r.panic,
        code |-> IF r.panic THEN EMPTY
                 ELSE Sprintf_s_s(S("job"), Sprintf_s_s(S("run"),
                         Join(<<details.job, namespace>> \o r.parts, <<SP>>)))]

\* one cluster command of the run action
KubectlCreateDryRun(cronjob, namespace, jobName) ==
    [op |-> "create --dry-run", cronjob |-> cronjob, namespace |-> namespace,
     jobName |-> jobName, args |-> <<>>]
KubectlApply(cronjob, namespace, jobName, args) ==
    [op |-> "apply", cronjob |-> cronjob, namespace |-> namespace,
     jobName |-> jobName, args |-> args]

\* variant of job_renderArgs that puts each dropdown ahead of the dropdowns
\* of the args before it
RECURSIVE job_renderArgs_prepend(_, _, _)
job_renderArgs_prepend(options, job, acc) ==
    IF options = <<>> THEN acc
    ELSE LET option == Head(options)
             flagKey == Sprintf_s_dash_s(job, option.flag)
             isSelect == option.type = "bool" \/ option.type = "dropdown"
             p1 == IF isSelect /\ ~Has(acc.params, flagKey) /\ option.default # EMPTY
                   THEN Put(acc.params, flagKey, Sprintf_s_s(option.flag, option.default))
                   ELSE acc.params
             select == [name |-> option.description,
                        command |-> job_cmdPrefix(Sprintf_s_s(S("select_dynamic"), flagKey)),
                        options |-> job_dropdownOptions(option),
                        initial |-> IF option.default # EMPTY
                                    THEN Option(Sprintf_s_s(option.flag, option.default))
                                    ELSE NilOption]
             input == [command |-> job_cmdPrefix(
                          Sprintf_s_s(S("select_dynamic"),
                                      Sprintf_s_s(flagKey, option.flag)) \o <<SP>>),
                       text |-> option.description]
         IN job_renderArgs_prepend(Tail(options), job,
                [params |-> p1,
                 selects |-> IF isSelect
                             THEN <<Head(acc.selects), select>> \o Tail(acc.selects)
                             ELSE acc.selects,
                 inputs |-> IF option.type = "text" THEN Append(acc.inputs, input)
                            ELSE acc.inputs])

\* the loop of showBothSelects over job.Args; acc carries details.params
\* (defaults are stored into it) and the elements built so far
RECURSIVE job_renderArgs(_, _, _)
job_renderArgs(options, job, acc) ==
    IF options = <<>> THEN acc
    ELSE LET option == Head(options)
             flagKey == Sprintf_s_dash_s(job, option.flag)
             isSelect == option.type = "bool" \/ option.type = "dropdown"
             p1 == IF isSelect /\ ~Has(acc.params, flagKey) /\ option.default # EMPTY
                   THEN Put(acc.params, flagKey, Sprintf_s_s(option.flag, option.default))
                   ELSE acc.params
             select == [name |-> option.description,
                        command |-> job_cmdPrefix(Sprintf_s_s(S("select_dynamic"), flagKey)),
                        options |-> job_dropdownOptions(option),
                        initial |-> IF option.default # EMPTY
                                    THEN Option(Sprintf_s_s(option.flag, option.default))
                                    ELSE NilOption]
             input == [command |-> job_cmdPrefix(
                          Sprintf_s_s(S("select_dynamic"),
                                      Sprintf_s_s(flagKey, option.flag)) \o <<SP>>),
                       text |-> option.description]
         IN job_renderArgs(Tail(options), job,
                [params |-> p1,
                 selects |-> IF isSelect THEN Append(acc.selects, select) ELSE acc.selects,
                 inputs |-> IF option.type = "text" THEN Append(acc.inputs, input)
                            ELSE acc.inputs])

\* the loop of showBothSelects over the jobs: a job named details.job sets
\* namespace and jobArgs and has its args rendered
RECURSIVE job_renderJobs(_, _, _)
job_renderJobs(jobs, jobName, acc) ==
    IF jobs = <<>> THEN acc
    ELSE LET job == Head(jobs)
             r == job_renderArgs(job.args, jobName,
                     [params |-> acc.params, selects |-> acc.selects, inputs |-> acc.inputs])
         IN IF job.name = jobName
            THEN job_renderJobs(Tail(jobs), jobName,
                    [params |-> r.params, selects |-> r.selects, inputs |-> r.inputs,
                     namespace |-> job.namespace, jobArgs |-> job.args])
            ELSE job_renderJobs(Tail(jobs), jobName, acc)

\* the option list of the Job Name select
job_jobList(jobs) == [i \in 1..Len(jobs) |-> jobs[i].name]

\* showBothSelects(details): the details after the call, and the response
job_showBothSelects(d, up) ==
    LET jobs == job_getBotkubeJobs(up)
        firstSelect == [name |-> S("Job Name"),
                        command |-> job_cmdPrefix(S("select_first")),
                        options |-> job_jobList(jobs),
                        initial |-> Option(d.job)]
        r == job_renderJobs(jobs, d.job,
                [params |-> d.params, selects |-> <<firstSelect>>, inputs |-> <<>>,
                 namespace |-> EMPTY, jobArgs |-> <<>>])
        d1 == [job |-> d.job, params |-> r.params]
        made == job_allSelectionsMade(d1, r.jobArgs)
        code == job_buildFinalCommand(r.jobArgs, r.namespace, d1)
    IN IF made /\ code.panic
       THEN [details |-> d1, out |-> Panic(S("index out of range [1] with length 1"))]
       ELSE [details |-> d1,
             out |-> [kind |-> "ui",
                      text |-> Sprintf_s_s(S("Please select the Job parameters for"), d.job),
                      first |-> Option(d.job),
                      selects |-> r.selects,
                      inputs |-> r.inputs,
                      run |-> IF made THEN <<RunSection(code.code)>> ELSE <<>>]]

\* initialMessages: the Job Name select alone
job_initialMessages(up) ==
    [NoOut EXCEPT !.kind = "initial",
                  !.text = S("Please select the Job name"),
                  !.selects = << [name |-> S("Job Name"),
                                  command |-> job_cmdPrefix(S("select_first")),
                                  options |-> job_jobList(job_getBotkubeJobs(up)),
                                  initial |-> NilOption] >>]

\* whether `kubectl create job --from=cronjob/<name> -n <namespace>` succeeds
job_cronJobExists(up, name, namespace) ==
    /\ up
    /\ \E i \in 1..Len(job_CronJobs) :
          job_CronJobs[i].name = name /\ job_CronJobs[i].namespace = namespace

\* variant of job_run that takes the arguments from the namespace on
job_run_fromNamespace(value, up, now) ==
    LET fields == Fields(value)
        jobName == Sprintf_s_dash_s(fields[1], now)
        create == KubectlCreateDryRun(fields[1], fields[2], jobName)
    IN IF Len(fields) < 2
       THEN [exec |-> <<>>, out |-> Panic(S("slice bounds out of range"))]
       ELSE IF ~job_cronJobExists(up, fields[1], fields[2])
       THEN [exec |-> <<create>>,
             out |-> Panic(S("interface conversion: interface {} is nil"))]
       ELSE [exec |-> <<create, KubectlApply(fields[1], fields[2], jobName,
                                             SliceFrom(fields, 1))>>,
             out |-> CodeBlockMessage(
                        Sprintf_s_s(Sprintf_s_s(S("Job"), jobName), S("is started")))]

\* the run action: value is the command after "job run"
job_run(value, up, now) ==
    LET fields == Fields(value)
        jobName == Sprintf_s_dash_s(fields[1], now)
        create == KubectlCreateDryRun(fields[1], fields[2], jobName)
    IN IF Len(fields) < 2
       THEN [exec |-> <<>>, out |-> Panic(S("slice bounds out of range"))]
       ELSE IF ~job_cronJobExists(up, fields[1], fields[2])
       THEN [exec |-> <<create>>,
             out |-> Panic(S("interface conversion: interface {} is nil"))]
       ELSE [exec |-> <<create, KubectlApply(fields[1], fields[2], jobName,
                                             SliceFrom(fields, 2))>>,
             out |-> CodeBlockMessage(
                        Sprintf_s_s(Sprintf_s_s(S("Job"), jobName), S("is started")))]

\* Execute of the job plugin
job_Execute(cmd, slackState, up, now) ==
    LET d == job_extractStateDetails(slackState)
        pc == parseCommand(cmd)
        shown == job_showBothSelects(d, up)
        ran == job_run(pc.value, up, now)
    IN IF pc.action = S("select_first") \/ pc.action = S("select_dynamic")
       THEN [details |-> shown.details, out |-> shown.out, exec |-> <<>>]
       ELSE IF pc.action = S("run")
       THEN [details |-> d, out |-> ran.out, exec |-> ran.exec]
       ELSE IF TrimSpace(cmd) = job_pluginName
       THEN [details |-> d, out |-> job_initialMessages(up), exec |-> <<>>]
       ELSE [details |-> d, exec |-> <<>>,
             out |-> CodeBlockMessage(Sprintf_s_s(S("Plain command:"), cmd))]

\* ------------------------------------------------------------------------
\* msg: the requests the host delivers
\* ------------------------------------------------------------------------
\* Cmd(<<w1, .., wn>>): the words joined by single spaces
Cmd(words) == Join(words, <<SP>>)

\* the values a user can choose or type for an option
msg_InputValues(option) ==
    IF option.type = "text"
    THEN {S("prod"), Sprintf_s_s(option.flags[1], S("prod"))}
    ELSE {msg_dropdownOptions(option)[i] : i \in 1..Len(msg_dropdownOptions(option))}

msg_TargetInputs == {msg_ScriptDir[i] : i \in 1..Len(msg_ScriptDir)} \cup {S("ghost")}

\* the (flagKey, value) pairs of the options of script t
msg_ParamInputsOf(t) ==
    UNION { { <<Sprintf_s_dash_s(t, msg_ScriptOptions(t)[i].flags[1]), v>> :
                v \in msg_InputValues(msg_ScriptOptions(t)[i]) } :
            i \in 1..Len(msg_ScriptOptions(t)) }

msg_ParamInputs == UNION { msg_ParamInputsOf(t) : t \in msg_TargetInputs }

\* the keys of the select_dynamic commands that carry a key and no value
msg_BareKeys == {Sprintf_s_dash_s(S("deploy"), S("-t"))}

msg_Commands ==
    {msg_pluginName, Cmd(<<msg_pluginName, S("select_first")>>),
     Cmd(<<msg_pluginName, S("select_dynamic")>>),
     Cmd(<<msg_pluginName, S("run"), S("backup-job")>>)}
    \cup {Cmd(<<msg_pluginName, S("select_first"), t>>) : t \in msg_TargetInputs}
    \cup {Cmd(<<msg_pluginName, S("select_dynamic"), kv[1], kv[2]>>) : kv \in msg_ParamInputs}
    \cup {Cmd(<<msg_pluginName, S("select_dynamic"), k>>) : k \in msg_BareKeys}

\* bound: the parameter entries a session map holds at most
msg_MaxEntries == 3

\* ------------------------------------------------------------------------
\* msg: specification
\* ------------------------------------------------------------------------
\* the goroutines in which the host's calls of Execute run
Handlers == {1, 2}

\* a goroutine that runs no call: pc is the position in Execute, cmd the
\* command of the call, seq its place in the order of delivery, base the map
\* e.state at the delivery, todo the keys the range loop has yet to visit,
\* out the response
Idle ==
    [pc |-> "idle", cmd |-> EMPTY, seq |-> 0, base |-> EmptyMap, todo |-> {},
     out |-> NoOut]

\* no request is being answered
NoReq == [conv |-> "none", cmd |-> EMPTY, slackState |-> NilSlackState]

\* a request of conversation c
Req(c, cmd, slackState) == [conv |-> c, cmd |-> cmd, slackState |-> slackState]

Init ==
    /\ state = EmptyMap
    /\ proc = "up"
    /\ out = NoOut
    /\ req = NoReq
    /\ jobDetails = job_noDetails
    /\ exec = <<>>
    /\ created = <<>>
    /\ files = {}
    /\ clusterUp = TRUE
    /\ handlers = [h \in Handlers |-> Idle]

\* the number of entries of the session map (the stored parameter entries)
msg_Entries(e_state) ==
    IF Has(e_state, msg_sessionID)
    THEN Cardinality(DOMAIN e_state[msg_sessionID] \ {first})
    ELSE 0

\* the host calls Execute for conversation c with command cmd; a fatal error
\* or a panic ends the process, and the map in its memory is gone
MsgExecute(c, cmd) ==
    /\ proc = "up" /\ req = NoReq
    /\ \E r \in {msg_Execute(state, cmd, TRUE)} :
       LET dies == r.out.kind \in {"fatal", "panic"}
       IN /\ msg_Entries(r.state) <= msg_MaxEntries
          /\ state' = IF dies THEN EmptyMap ELSE r.state
          /\ out' = r.out
          /\ proc' = IF dies THEN "dead" ELSE "up"
    /\ req' = Req(c, cmd, NilSlackState)
    /\ UNCHANGED <<jobDetails, exec, clusterUp, handlers, created, files>>

\* a request from a platform without interactivity
MsgNotInteractive(c, cmd) ==
    /\ proc = "up" /\ req = NoReq
    /\ \E r \in {msg_Execute(state, cmd, FALSE)} :
          /\ state' = r.state
          /\ out' = r.out
    /\ req' = Req(c, cmd, NilSlackState)
    /\ UNCHANGED <<proc, jobDetails, exec, clusterUp, handlers, created, files>>

\* Execute has returned: the host takes the response
Return ==
    /\ proc = "up" /\ req # NoReq
    /\ out' = NoOut
    /\ req' = NoReq
    /\ jobDetails' = job_noDetails
    /\ exec' = <<>>
    /\ UNCHANGED <<state, proc, clusterUp, handlers, created, files>>

msg_Next ==
    \/ \E c \in Conv, cmd \in msg_Commands : MsgExecute(c, cmd)
    \/ \E c \in Conv : MsgNotInteractive(c, Cmd(<<msg_pluginName, S("select_first"), S("deploy")>>))
    \/ Return

SpecMsg == Init /\ [][msg_Next]_vars



\* ------------------------------------------------------------------------
\* job: the requests the host delivers
\* ------------------------------------------------------------------------
\* the action id of the Job Name select, as the host reports it
job_firstId == Sprintf_s_s(job_pluginName, S("select_first"))

\* the action id of the element rendered for an option of job t
job_elementId(t, option) ==
    Sprintf_s_s(job_pluginName,
        Sprintf_s_s(S("select_dynamic"),
            IF option.type = "text"
            THEN Sprintf_s_s(Sprintf_s_dash_s(t, option.flag), option.flag)
            ELSE Sprintf_s_dash_s(t, option.flag)))

\* what the element of an option can hold: nothing, a typed text, a chosen option
job_ElementActs(option) ==
    IF option.type = "text"
    THEN {Act(EMPTY, EMPTY), Act(S("prod"), EMPTY), Act(<<"eu", SP, "west">>, EMPTY)}
    ELSE {Act(EMPTY, EMPTY)} \cup
         {Act(EMPTY, job_dropdownOptions(option)[i]) :
            i \in 1..Len(job_dropdownOptions(option))}

job_TargetInputs ==
    {job_CronJobs[i].name : i \in 1..Len(job_CronJobs)} \cup {S("ghost")}

\* the states of the elements a message shows for cronjob i (0: for none)
job_ElementStates(i) ==
    IF i = 0 THEN {EmptyMap}
    ELSE LET job == job_CronJobs[i]
         IN { [id \in {job_elementId(job.name, job.args[k]) : k \in 1..Len(job.args)} |->
                 IF id = job_elementId(job.name, job.args[1]) THEN a1 ELSE a2] :
              a1 \in job_ElementActs(job.args[1]), a2 \in job_ElementActs(job.args[2]) }

\* the command the element of an option sends when it holds act
job_elementCommand(t, option, act) ==
    Sprintf_s_s(job_elementId(t, option),
                IF option.type = "text" THEN act.value ELSE act.selected)

\* a request: the command and the block-action state delivered with it
JobReq(cmd, slackState) == [cmd |-> cmd, slackState |-> slackState]

\* the user picks target t in the Job Name select of a message that shows
\* the elements of some cronjob, or of none
job_SelectFirstRequests ==
    { JobReq(Cmd(<<job_pluginName, S("select_first"), t>>),
             SlackState(Put(m, job_firstId, Act(EMPTY, t)))) :
        t \in job_TargetInputs,
        m \in UNION {job_ElementStates(i) : i \in 0..Len(job_CronJobs)} }

\* the user sets element k of the message that shows cronjob i
job_SelectDynamicRequests ==
    UNION { { JobReq(job_elementCommand(job_CronJobs[i].name, job_CronJobs[i].args[k],
                        m[job_elementId(job_CronJobs[i].name, job_CronJobs[i].args[k])]),
                     SlackState(Put(m, job_firstId, Act(EMPTY, job_CronJobs[i].name)))) :
                m \in { x \in job_ElementStates(i) :
                          x[job_elementId(job_CronJobs[i].name, job_CronJobs[i].args[k])]
                             # Act(EMPTY, EMPTY) } } :
            i \in 1..Len(job_CronJobs), k \in 1..2 }

\* the run commands: typed by hand (no block-action state) or sent by the
\* Run button of a message
job_RunCommands ==
    {Cmd(<<job_pluginName, S("run")>>),
     Cmd(<<job_pluginName, S("run"), S("backup-job")>>),
     Cmd(<<job_pluginName, S("run"), S("backup-job"), S("default")>>),
     Cmd(<<job_pluginName, S("run"), S("backup-job"), S("default"), S("-n"), S("prod")>>),
     Cmd(<<job_pluginName, S("run"), S("ghost"), S("default"), S("-i")>>)}

job_ButtonState ==
    SlackState(
        Put(Put(Put(EmptyMap, job_firstId, Act(EMPTY, S("backup-job"))),
                job_elementId(S("backup-job"), job_CronJobs[1].args[1]), Act(S("prod"), EMPTY)),
            job_elementId(S("backup-job"), job_CronJobs[1].args[2]), Act(EMPTY, EMPTY)))

job_Requests ==
    job_SelectFirstRequests \cup job_SelectDynamicRequests
    \cup {JobReq(cmd, ss) : cmd \in job_RunCommands, ss \in {NilSlackState, job_ButtonState}}
    \cup {JobReq(cmd, NilSlackState) :
            cmd \in {job_pluginName, Cmd(<<job_pluginName, S("help")>>),
                     Cmd(<<job_pluginName, S("select_first"), S("backup-job")>>)}}

\* the clock readings of time.Now().Unix(): two seconds
job_Clock == {S("1700000000"), S("1700000001")}

\* bound: the run dispatches that reach kubectl apply
job_MaxRuns == 2

\* the file plugin.PersistKubeConfig writes for a request
job_kubeConfigPath == S("kubeconfig")

\* Execute with the files it writes: the kubeconfig is persisted first and
\* its deletion deferred, so it is deleted on a return and on a panic; the
\* run action writes the manifest once the cronjob was read, and log.Fatalf
\* on a failed write exits the process without running the deferred calls;
\* after kubectl apply the manifest is deleted.  applied is the name of the
\* job kubectl apply was given, if the request got that far.
job_ExecuteOnDisk(cmd, slackState, up, now, writeOk) ==
    LET r == job_Execute(cmd, slackState, up, now)
        writes == Len(r.exec) = 2
    IN IF writes /\ ~writeOk
       THEN [details |-> r.details, exec |-> <<r.exec[1]>>,
             out |-> Fatal(S("error writing patched JSON to file")),
             files |-> {job_kubeConfigPath}, applied |-> <<>>]
       ELSE [details |-> r.details, exec |-> r.exec, out |-> r.out,
             files |-> {},
             applied |-> IF writes THEN <<r.exec[2].jobName>> ELSE <<>>]

\* ------------------------------------------------------------------------
\* job: specification
\* ------------------------------------------------------------------------
\* the host calls Execute for conversation c; a fatal error or a panic ends
\* the process
JobExecute(c, in, now, writeOk) ==
    /\ proc = "up" /\ req = NoReq
    /\ \E r \in {job_ExecuteOnDisk(in.cmd, in.slackState, clusterUp, now, writeOk)} :
          /\ Len(created) + Len(r.applied) <= job_MaxRuns
          /\ out' = r.out
          /\ jobDetails' = r.details
          /\ exec' = r.exec
          /\ created' = created \o r.applied
          /\ files' = files \cup r.files
          /\ proc' = IF r.out.kind \in {"fatal", "panic"} THEN "dead" ELSE "up"
    /\ req' = Req(c, in.cmd, in.slackState)
    /\ UNCHANGED <<state, clusterUp, handlers>>

\* the cluster becomes unreachable: kubectl fails from now on
ClusterFails ==
    /\ proc = "up" /\ req = NoReq /\ clusterUp
    /\ clusterUp' = FALSE
    /\ UNCHANGED <<state, proc, out, req, jobDetails, exec, handlers, created, files>>

\* the cluster is reachable again
ClusterRecovers ==
    /\ proc = "up" /\ req = NoReq /\ ~clusterUp
    /\ clusterUp' = TRUE
    /\ UNCHANGED <<state, proc, out, req, jobDetails, exec, handlers, created, files>>

job_Next ==
    \/ \E c \in Conv, in \in job_Requests, now \in job_Clock, writeOk \in BOOLEAN :
          JobExecute(c, in, now, writeOk)
    \/ ClusterFails
    \/ ClusterRecovers
    \/ Return

SpecJob == Init /\ [][job_Next]_vars


\* ------------------------------------------------------------------------
\* msg4: requests and specification
\* ------------------------------------------------------------------------
msg4_Commands ==
    {msg_pluginName, Cmd(<<msg_pluginName, S("select_first")>>),
     Cmd(<<msg_pluginName, S("run"), S("deploy")>>),
     Cmd(<<msg_pluginName, S("select_dynamic"), S("deploy") \o S("-") \o S("-e"),
           S("-e"), S("dev")>>)}
    \cup {Cmd(<<msg_pluginName, S("select_first"), t>>) : t \in msg_TargetInputs}

Msg4Execute(c, cmd, scriptOk) ==
    /\ proc = "up" /\ req = NoReq
    /\ \E r \in {msg4_Execute(state, cmd, TRUE, scriptOk)} :
       LET dies == r.out.kind \in {"fatal", "panic"}
       IN /\ state' = IF dies THEN EmptyMap ELSE r.state
          /\ out' = r.out
          /\ proc' = IF dies THEN "dead" ELSE "up"
    /\ req' = Req(c, cmd, NilSlackState)
    /\ UNCHANGED <<jobDetails, exec, clusterUp, handlers, created, files>>

Msg4NotInteractive(c, cmd) ==
    /\ proc = "up" /\ req = NoReq
    /\ \E r \in {msg4_Execute(state, cmd, FALSE, TRUE)} :
          /\ state' = r.state
          /\ out' = r.out
    /\ req' = Req(c, cmd, NilSlackState)
    /\ UNCHANGED <<proc, jobDetails, exec, clusterUp, handlers, created, files>>

msg4_Next ==
    \/ \E c \in Conv, cmd \in msg4_Commands, scriptOk \in BOOLEAN : Msg4Execute(c, cmd, scriptOk)
    \/ \E c \in Conv, cmd \in msg4_Commands : Msg4NotInteractive(c, cmd)
    \/ Return

SpecMsg4 == Init /\ [][msg4_Next]_vars

\* ------------------------------------------------------------------------
\* msg2 (src/unnamed/part_002): two fixed dropdowns and a Run button
\* ------------------------------------------------------------------------
\* the key of the second selection in a session's map
second == S("second")

\* the options of the two dropdowns
msg2_FirstOptions == << S("pod"), S("deploy"), S("cronjob") >>
msg2_SecondOptions == << S("update-chrome-data-incentives-stack"), S("botkube") >>

\* the answer of Execute to a platform without interactivity
msg2_NotSupported ==
    CodeBlockMessage(S("Interactivity for this platform is not supported"))

\* Message.Plaintext of a response: a code block message has none
msg2_Plaintext(o) == IF o.kind = "code" THEN EMPTY ELSE o.text

\* runBotkubeCommand: Execute is called with an input that has the command
\* alone, so its context reports no interactivity; the plain text of the
\* answer is returned, and Execute returns no error
msg2_runBotkubeCommand(cmd) ==
    [err |-> FALSE, result |-> msg2_Plaintext(msg2_NotSupported)]

\* the command runBotkubeCommand is given by showBothSelects
msg2_internalCommand ==
    Cmd(<<S("kubectl"), S("get"), S("po"), S("botkube-6c7d9cb8cd-768nv"),
          S("-n"), S("botkube"), S("--ignore-not-found=true"), S("-o"),
          S("go-template='{{.metadata.name}}'")>>)

\* initialMessages: the first dropdown alone
msg2_initialMessages ==
    [NoOut EXCEPT
        !.kind = "initial",
        !.text = S("Showcases interactive message capabilities. Please select an option from the first dropdown."),
        !.selects = << [name |-> first,
                        command |-> msg_cmdPrefix(S("select_first")),
                        options |-> msg2_FirstOptions,
                        initial |-> NilOption] >>]

\* showBothSelects: both dropdowns; with both selections made, a section
\* whose code block is the result of the internal command and whose button
\* carries kubectl get <first> -n <second>
msg2_showBothSelects(firstSelection, secondSelection) ==
    LET r == msg2_runBotkubeCommand(msg2_internalCommand)
        code == Cmd(<<S("kubectl"), S("get"), firstSelection, S("-n"), secondSelection>>)
        made == firstSelection # EMPTY /\ secondSelection # EMPTY
    IN IF made /\ r.err
       THEN CodeBlockMessage(S("Failed to run internal command"))
       ELSE [kind |-> "ui",
             text |-> S("You've selected from the first dropdown. Now select from the second dropdown."),
             first |-> Option(firstSelection),
             selects |-> << [name |-> first,
                             command |-> msg_cmdPrefix(S("select_first")),
                             options |-> msg2_FirstOptions,
                             initial |-> Option(firstSelection)],
                            [name |-> second,
                             command |-> msg_cmdPrefix(S("select_second")),
                             options |-> msg2_SecondOptions,
                             initial |-> Option(S("update-chrome-data-incentives-stack"))] >>,
             inputs |-> <<>>,
             run |-> IF made THEN <<[preview |-> r.result, button |-> code]>> ELSE <<>>]

\* Execute of part_002 on the executor's map e.state
msg2_Execute(e_state, cmd, interactive) ==
    LET pc == parseCommand(cmd)
        st0 == IF Has(e_state, msg_sessionID) THEN e_state
               ELSE Put(e_state, msg_sessionID, EmptyMap)
        sess == st0[msg_sessionID]
    IN IF ~interactive
       THEN [state |-> e_state, out |-> msg2_NotSupported]
       ELSE IF pc.action = S("select_first")
       THEN [state |-> Put(st0, msg_sessionID, Put(sess, first, pc.value)),
             out |-> msg2_showBothSelects(pc.value, Get(sess, second))]
       ELSE IF pc.action = S("select_second")
       THEN [state |-> Put(st0, msg_sessionID, Put(sess, second, pc.value)),
             out |-> msg2_showBothSelects(Get(sess, first), pc.value)]
       ELSE IF TrimSpace(cmd) = msg_pluginName
       THEN [state |-> st0, out |-> msg2_initialMessages]
       ELSE [state |-> st0,
             out |-> CodeBlockMessage(Sprintf_s_s(S("Plain command:"), cmd))]

\* the commands the host delivers to msg2
msg2_Commands ==
    {msg_pluginName, Cmd(<<msg_pluginName, S("select_first")>>),
     Cmd(<<msg_pluginName, S("select_second")>>),
     Cmd(<<msg_pluginName, S("run")>>)}
    \cup {Cmd(<<msg_pluginName, S("select_first"), msg2_FirstOptions[i]>>) :
             i \in 1..Len(msg2_FirstOptions)}
    \cup {Cmd(<<msg_pluginName, S("select_second"), msg2_SecondOptions[i]>>) :
             i \in 1..Len(msg2_SecondOptions)}

\* the host calls Execute for conversation c with command cmd
Msg2Execute(c, cmd) ==
    /\ proc = "up" /\ req = NoReq
    /\ \E r \in {msg2_Execute(state, cmd, TRUE)} :
          /\ state' = r.state
          /\ out' = r.out
    /\ req' = Req(c, cmd, NilSlackState)
    /\ UNCHANGED <<proc, jobDetails, exec, clusterUp, handlers, created, files>>

\* a request from a platform without interactivity
Msg2NotInteractive(c, cmd) ==
    /\ proc = "up" /\ req = NoReq
    /\ \E r \in {msg2_Execute(state, cmd, FALSE)} :
          /\ state' = r.state
          /\ out' = r.out
    /\ req' = Req(c, cmd, NilSlackState)
    /\ UNCHANGED <<proc, jobDetails, exec, clusterUp, handlers, created, files>>

msg2_Next ==
    \/ \E c \in Conv, cmd \in msg2_Commands : Msg2Execute(c, cmd)
    \/ \E c \in Conv, cmd \in msg2_Commands : Msg2NotInteractive(c, cmd)
    \/ Return

SpecMsg2 == Init /\ [][msg2_Next]_vars

\* ------------------------------------------------------------------------
\* cmdmsg (src/cmd/msg/main.go): job, parameter, Run button in three steps
\* ------------------------------------------------------------------------
\* the fields of the executor, kept in the variable state; MsgExecutor{}
\* has both empty, which is what Get reads from the empty map
selectedJob == S("selectedJob")
selectedParam == S("selectedParam")

\* the option values of the two dropdowns
cmdmsg_jobs == << S("job1"), S("job2"), S("job3") >>
cmdmsg_params == << S("param1"), S("param2"), S("param3") >>

\* initialJobSelection: the job dropdown, its first option pre-selected
cmdmsg_initialJobSelection ==
    [NoOut EXCEPT
        !.kind = "initial",
        !.text = Cmd(<<S("Select"), S("a"), S("job:")>>),
        !.selects = << [name |-> Cmd(<<S("Select"), S("Job")>>),
                        command |-> msg_cmdPrefix(Cmd(<<S("select"), S("job")>>)),
                        options |-> cmdmsg_jobs,
                        initial |-> Option(cmdmsg_jobs[1])] >>]

\* showParametersForJob: the parameter dropdown
cmdmsg_showParametersForJob(m) ==
    [NoOut EXCEPT
        !.kind = "ui",
        !.text = Cmd(<<S("You selected job:"), Get(m, selectedJob) \o S("."),
                       S("Now select a parameter:")>>),
        !.selects = << [name |-> Cmd(<<S("Select"), S("Parameter")>>),
                        command |-> msg_cmdPrefix(Cmd(<<S("select"), S("param")>>)),
                        options |-> cmdmsg_params,
                        initial |-> Option(cmdmsg_params[1])] >>]

\* showRunButton: a section with the Run button alone
cmdmsg_showRunButton(m) ==
    [NoOut EXCEPT
        !.kind = "ui",
        !.text = Cmd(<<S("You selected job:"), Get(m, selectedJob),
                       S("and parameter:"), Get(m, selectedParam) \o S(".")>>),
        !.run = << [preview |-> EMPTY,
                    button |-> msg_cmdPrefix(Cmd(<<S("run"), S("job"),
                                  Get(m, selectedJob), Get(m, selectedParam)>>))] >>]

\* Execute of src/cmd/msg/main.go on the executor m: the executor after the
\* call and the response.  The prefixes are compared with the whole command,
\* plugin name included.
cmdmsg_Execute(m, cmd, interactive) ==
    IF ~interactive
    THEN [state |-> m,
          out |-> CodeBlockMessage(S("Interactivity for this platform is not supported"))]
    ELSE IF TrimSpace(cmd) = msg_pluginName
    THEN [state |-> m, out |-> cmdmsg_initialJobSelection]
    ELSE IF HasPrefix(cmd, Cmd(<<S("select"), S("job")>>))
    THEN LET m1 == Put(m, selectedJob,
                       TrimPrefix(cmd, Cmd(<<S("select"), S("job")>>) \o <<SP>>))
         IN [state |-> m1, out |-> cmdmsg_showParametersForJob(m1)]
    ELSE IF HasPrefix(cmd, Cmd(<<S("select"), S("param")>>))
    THEN LET m1 == Put(m, selectedParam,
                       TrimPrefix(cmd, Cmd(<<S("select"), S("param")>>) \o <<SP>>))
         IN [state |-> m1, out |-> cmdmsg_showRunButton(m1)]
    ELSE IF HasPrefix(cmd, Cmd(<<S("run"), S("job")>>))
    THEN IF Get(m, selectedJob) = EMPTY \/ Get(m, selectedParam) = EMPTY
         THEN [state |-> m,
               out |-> CodeBlockMessage(S("Error: Job or parameter missing"))]
         ELSE [state |-> m,
               out |-> CodeBlockMessage(
                          Cmd(<<S("Executing: kubectl run"), Get(m, selectedJob),
                                Get(m, selectedParam)>>))]
    ELSE [state |-> m,
          out |-> CodeBlockMessage(Sprintf_s_s(S("Plain command:"), cmd))]

\* the command the host delivers when the user picks value in an element
\* whose command is command: the bot name that stands for the placeholder
\* addresses the bot and is not part of in.Command
cmdmsg_Delivered(command, value) ==
    LET cmd == TrimPrefix(command, MessageBotNamePlaceholder \o <<SP>>)
    IN IF value = EMPTY THEN cmd ELSE Sprintf_s_s(cmd, value)

\* the commands the elements of a response emit
cmdmsg_Emitted(o) ==
    UNION { {cmdmsg_Delivered(o.selects[i].command, o.selects[i].options[k]) :
                k \in 1..Len(o.selects[i].options)} : i \in 1..Len(o.selects) }
    \cup {cmdmsg_Delivered(o.run[i].button, EMPTY) : i \in 1..Len(o.run)}

\* the commands the host delivers: every command starts with the name of
\* the plugin it is routed to; typed by the user or emitted by an element
cmdmsg_Commands ==
    {msg_pluginName, Cmd(<<msg_pluginName, S("help")>>),
     Cmd(<<msg_pluginName, S("select")>>),
     Cmd(<<msg_pluginName, S("select"), S("job")>>),
     Cmd(<<msg_pluginName, S("select"), S("param")>>),
     Cmd(<<msg_pluginName, S("run")>>),
     Cmd(<<msg_pluginName, S("run"), S("job")>>)}
    \cup {Cmd(<<msg_pluginName, S("select"), S("job"), cmdmsg_jobs[i]>>) : i \in 1..Len(cmdmsg_jobs)}
    \cup {Cmd(<<msg_pluginName, S("select"), S("param"), cmdmsg_params[i]>>) : i \in 1..Len(cmdmsg_params)}
    \cup {Cmd(<<msg_pluginName, S("run"), S("job"), cmdmsg_jobs[i]>>) : i \in 1..Len(cmdmsg_jobs)}
    \cup {Cmd(<<msg_pluginName, S("run"), S("job"), cmdmsg_jobs[i], cmdmsg_params[k]>>) :
             i \in 1..Len(cmdmsg_jobs), k \in 1..Len(cmdmsg_params)}

\* the host calls Execute for conversation c with command cmd
CmdMsgExecute(c, cmd) ==
    /\ proc = "up" /\ req = NoReq
    /\ \E r \in {cmdmsg_Execute(state, cmd, TRUE)} :
          /\ state' = r.state
          /\ out' = r.out
    /\ req' = Req(c, cmd, NilSlackState)
    /\ UNCHANGED <<proc, jobDetails, exec, clusterUp, handlers, created, files>>

\* the user acts on an element of the response on display
CmdMsgElement(c) ==
    /\ proc = "up" /\ req # NoReq /\ req.conv = c
    /\ \E cmd \in cmdmsg_Emitted(out) :
       \E r \in {cmdmsg_Execute(state, cmd, TRUE)} :
          /\ state' = r.state
          /\ out' = r.out
          /\ req' = Req(c, cmd, NilSlackState)
    /\ UNCHANGED <<proc, jobDetails, exec, clusterUp, handlers, created, files>>

\* a request from a platform without interactivity
CmdMsgNotInteractive(c, cmd) ==
    /\ proc = "up" /\ req = NoReq
    /\ \E r \in {cmdmsg_Execute(state, cmd, FALSE)} :
          /\ state' = r.state
          /\ out' = r.out
    /\ req' = Req(c, cmd, NilSlackState)
    /\ UNCHANGED <<proc, jobDetails, exec, clusterUp, handlers, created, files>>

cmdmsg_Next ==
    \/ \E c \in Conv, cmd \in cmdmsg_Commands : CmdMsgExecute(c, cmd)
    \/ \E c \in Conv : CmdMsgElement(c)
    \/ \E c \in Conv, cmd \in cmdmsg_Commands : CmdMsgNotInteractive(c, cmd)
    \/ Return

SpecCmdMsg == Init /\ [][cmdmsg_Next]_vars


\* ------------------------------------------------------------------------
\* msg: calls of Execute that run side by side
\* ------------------------------------------------------------------------
\* msg: the selection of the one session the executor keeps
msg_Session == IF Has(state, msg_sessionID) THEN state[msg_sessionID] ELSE EmptyMap

\* delete(m, k)
Delete(m, k) ==
    IF DOMAIN m \ {k} = {} THEN EmptyMap ELSE [x \in DOMAIN m \ {k} |-> m[x]]

\* the commands of the calls followed side by side
msg_ConcurrentCommands ==
    {Cmd(<<msg_pluginName, S("select_first"), t>>) : t \in {S("backup-job"), S("deploy")}}
    \cup {Cmd(<<msg_pluginName, S("select_dynamic"), kv[1], kv[2]>>) :
            kv \in {<<Sprintf_s_dash_s(S("backup-job"), S("-n")), S("prod")>>,
                    <<Sprintf_s_dash_s(S("deploy"), S("-e")),
                      Sprintf_s_s(S("-e"), S("prod"))>>}}

\* the positions of Execute at which the goroutine is about to read or write
\* the map e.state
msg_MapAccess == {"session", "compare", "delete", "write", "store", "show"}

\* the goroutines after the process has exited: what is left of a call is
\* what the host knows of it, its command and its delivery
Killed ==
    [h \in Handlers |->
        IF handlers[h].pc = "idle" THEN Idle
        ELSE [Idle EXCEPT !.pc = "killed", !.cmd = handlers[h].cmd,
                          !.seq = handlers[h].seq, !.base = handlers[h].base]]

\* the calls that have been delivered and have not returned to the host
InFlight == {h \in Handlers : handlers[h].pc # "idle"}

\* the host calls Execute in goroutine h, while at most one other call runs
Deliver(h, cmd) ==
    /\ proc = "up" /\ req = NoReq
    /\ handlers[h].pc = "idle"
    /\ \A g \in InFlight : handlers[g].seq = 1
    /\ handlers' = [handlers EXCEPT ![h] =
          [Idle EXCEPT !.pc = "session", !.cmd = cmd,
                       !.seq = Cardinality(InFlight) + 1, !.base = state]]
    /\ UNCHANGED <<state, proc, out, req, jobDetails, exec, clusterUp, created, files>>

\* the session map is created when it is missing
InitSession(h) ==
    /\ proc = "up" /\ handlers[h].pc = "session"
    /\ state' = IF Has(state, msg_sessionID) THEN state
                ELSE Put(state, msg_sessionID, EmptyMap)
    /\ handlers' = [handlers EXCEPT ![h].pc =
          IF parseCommand(handlers[h].cmd).action = S("select_first")
          THEN "compare" ELSE "store"]
    /\ UNCHANGED <<proc, out, req, jobDetails, exec, clusterUp, created, files>>

\* case "select_first": the stored target is compared with the value
Compare(h) ==
    /\ proc = "up" /\ handlers[h].pc = "compare"
    /\ handlers' = [handlers EXCEPT ![h] =
          IF Get(msg_Session, first) # parseCommand(handlers[h].cmd).value
          THEN [@ EXCEPT !.pc = "delete", !.todo = DOMAIN msg_Session]
          ELSE [@ EXCEPT !.pc = "write"]]
    /\ UNCHANGED <<state, proc, out, req, jobDetails, exec, clusterUp, created, files>>

\* one round of the range loop: a key is deleted; a key stored by another
\* goroutine since the loop began may be visited or not
DeleteKey(h) ==
    /\ proc = "up" /\ handlers[h].pc = "delete"
    /\ \E key \in handlers[h].todo \cup DOMAIN msg_Session :
          /\ state' = Put(state, msg_sessionID, Delete(msg_Session, key))
          /\ handlers' = [handlers EXCEPT ![h].todo = @ \ {key}]
    /\ UNCHANGED <<proc, out, req, jobDetails, exec, clusterUp, created, files>>

\* the range loop ends
DeleteDone(h) ==
    /\ proc = "up" /\ handlers[h].pc = "delete" /\ handlers[h].todo = {}
    /\ handlers' = [handlers EXCEPT ![h].pc = "write"]
    /\ UNCHANGED <<state, proc, out, req, jobDetails, exec, clusterUp, created, files>>

\* the target is stored
WriteFirst(h) ==
    /\ proc = "up" /\ handlers[h].pc = "write"
    /\ state' = Put(state, msg_sessionID,
                    Put(msg_Session, first, parseCommand(handlers[h].cmd).value))
    /\ handlers' = [handlers EXCEPT ![h].pc = "show"]
    /\ UNCHANGED <<proc, out, req, jobDetails, exec, clusterUp, created, files>>

\* case "select_dynamic": the entry is stored under its flag
StoreParam(h) ==
    /\ proc = "up" /\ handlers[h].pc = "store"
    /\ LET value == parseCommand(handlers[h].cmd).value
           flag == Fields(value)[1]
       IN state' = Put(state, msg_sessionID,
                       Put(msg_Session, flag, TrimPrefix(value, flag \o <<SP>>)))
    /\ handlers' = [handlers EXCEPT ![h].pc = "show"]
    /\ UNCHANGED <<proc, out, req, jobDetails, exec, clusterUp, created, files>>

\* showBothSelects on the session map as it is now: the script of the stored
\* target returns, the defaults are stored and the response is built; a script
\* that fails ends the process
Show(h) ==
    /\ proc = "up" /\ handlers[h].pc = "show"
    /\ \E r \in {msg_showBothSelects(msg_Session)} :
          /\ state' = IF r.out.kind = "fatal" THEN EmptyMap
                      ELSE Put(state, msg_sessionID, r.state)
          /\ proc' = IF r.out.kind = "fatal" THEN "dead" ELSE "up"
          /\ handlers' = IF r.out.kind = "fatal" THEN Killed
                         ELSE [handlers EXCEPT ![h].pc = "done", ![h].out = r.out]
    /\ UNCHANGED <<out, req, jobDetails, exec, clusterUp, created, files>>

\* the script started by runScript never exits: cmd.Output() never returns
ScriptHangs(h) ==
    /\ proc = "up" /\ handlers[h].pc = "show"
    /\ \E i \in 1..Len(msg_ScriptDir) : msg_ScriptDir[i] = Get(msg_Session, first)
    /\ handlers' = [handlers EXCEPT ![h].pc = "hung"]
    /\ UNCHANGED <<state, proc, out, req, jobDetails, exec, clusterUp, created, files>>

\* the next step of goroutine h writes the map
msg_Writes(h) ==
    \/ handlers[h].pc = "session" /\ ~Has(state, msg_sessionID)
    \/ handlers[h].pc = "delete" /\ handlers[h].todo # {}
    \/ handlers[h].pc \in {"write", "store"}
    \/ handlers[h].pc = "show" /\ msg_showBothSelects(msg_Session).state # msg_Session

\* one goroutine writes the unsynchronized map while another one is in it, and
\* the runtime stops the process ("fatal error: concurrent map writes")
ConcurrentMapWrites ==
    /\ proc = "up"
    /\ \E h, g \in Handlers :
          h # g /\ msg_Writes(h) /\ handlers[g].pc \in msg_MapAccess
    /\ proc' = "dead"
    /\ state' = EmptyMap
    /\ handlers' = Killed
    /\ UNCHANGED <<out, req, jobDetails, exec, clusterUp, created, files>>

\* the host has taken the responses of the calls it delivered
Returned ==
    /\ proc = "up"
    /\ InFlight # {}
    /\ \A h \in InFlight : handlers[h].pc = "done"
    /\ handlers' = [h \in Handlers |-> Idle]
    /\ UNCHANGED <<state, proc, out, req, jobDetails, exec, clusterUp, created, files>>

msg_Step(h) ==
    \/ InitSession(h)
    \/ Compare(h)
    \/ DeleteKey(h)
    \/ DeleteDone(h)
    \/ WriteFirst(h)
    \/ StoreParam(h)
    \/ Show(h)

msg_ConcurrentNext ==
    \/ \E h \in Handlers, cmd \in msg_ConcurrentCommands : Deliver(h, cmd)
    \/ \E h \in Handlers : msg_Step(h)
    \/ \E h \in Handlers : ScriptHangs(h)
    \/ ConcurrentMapWrites
    \/ Returned

SpecMsgConcurrent == Init /\ [][msg_ConcurrentNext]_vars

\* the same with the scheduling of the Go runtime and of the host: a goroutine
\* that can take its next step takes it, and responses are taken
SpecMsgLive ==
    /\ Init /\ [][msg_ConcurrentNext]_vars
    /\ \A h \in Handlers : WF_vars(msg_Step(h))
    /\ WF_vars(Returned)

\* ------------------------------------------------------------------------
\* snippet (src/cmd/snippet/main.go): environment
\* ------------------------------------------------------------------------
\* Execute returns no message and the error err
ErrorValue(text) == [NoOut EXCEPT !.kind = "error", !.text = text]

\* one call of the handler to the outside: a command, or a request to Slack
Call(op, reply) ==
    [op |-> op, reply |-> reply, cmd |-> EMPTY, stdout |-> EMPTY,
     filename |-> EMPTY, length |-> 0,
     token |-> EMPTY, url |-> EMPTY, content |-> EMPTY, fileID |-> EMPTY,
     channel |-> EMPTY, comment |-> EMPTY]

\* what getConfig finds: the group with its token and channel, a file that
\* cannot be read or parsed, or a file without the group
snippet_Configs == {"ok", "unreadable", "nogroup"}

\* the outcomes of the command: it fails, or it exits with a standard output
snippet_CommandResults ==
    {[err |-> TRUE, stdout |-> EMPTY], [err |-> FALSE, stdout |-> EMPTY],
     [err |-> FALSE, stdout |-> S("ok")],
     [err |-> FALSE, stdout |-> <<"NAME", SP, "READY">>]}

\* the replies of files.getUploadURLExternal: no reply, a body that is no
\* JSON, a body whose upload_url is the string null, an error body (ok false,
\* no upload_url), or an upload URL with a file id
snippet_HandleReplies == {"neterr", "badjson", "null", "refused", "ok"}

\* the replies to the POST of the blob
snippet_TransferReplies == {"neterr", "status500", "ok"}

\* the replies of files.completeUploadExternal: no reply, a status other than
\* 200, status 200 with an error body (ok false), status 200 with ok true
snippet_FinalizeReplies == {"neterr", "status500", "refused", "ok"}

\* the environment of one request
snippet_Envs ==
    { e \in [configs : BOOLEAN, config : snippet_Configs, kubeconfig : BOOLEAN,
             command : snippet_CommandResults, handle : snippet_HandleReplies,
             transfer : snippet_TransferReplies, finalize : snippet_FinalizeReplies] :
        \* Slack hands out no upload URL to a request without a token
        e.config = "unreadable" => e.handle # "ok" }

\* the values of the configuration file
snippet_botToken == S("xoxb-token")
snippet_channelID == S("C0123")
\* the values of Slack's reply
snippet_uploadURL == S("https://files.slack.com/upload/v1/abc")
snippet_fileID == S("F0123")

\* ------------------------------------------------------------------------
\* snippet: the plugin
\* ------------------------------------------------------------------------
\* parseCommand of snippet: action = parts[0], value = the other parts joined
snippet_parseCommand(cmd) ==
    LET parts == Fields(cmd)
    IN IF Len(parts) > 1
       THEN [action |-> parts[1], value |-> Join(SliceFrom(parts, 1), <<SP>>)]
       ELSE [action |-> EMPTY, value |-> EMPTY]

\* a token the expression -\w matches as a whole
snippet_isFlag(token) == token \in {S("-c"), S("-m")}

\* re.FindAllStringSubmatch over unquoted tokens: the pairs (flag, next token),
\* left to right and without overlap
RECURSIVE snippet_matches(_, _, _)
snippet_matches(fields, i, acc) ==
    IF i >= Len(fields) THEN acc
    ELSE IF snippet_isFlag(fields[i])
    THEN snippet_matches(fields, i + 2, Append(acc, <<fields[i], fields[i + 1]>>))
    ELSE snippet_matches(fields, i + 1, acc)

\* cre.FindStringSubmatch: everything after the first "-c "
snippet_cFlagAll(fields) ==
    LET at == {i \in 1..(Len(fields) - 1) : fields[i] = S("-c")}
    IN IF at = {} THEN [found |-> FALSE, all |-> EMPTY]
       ELSE [found |-> TRUE,
             all |-> Join(SliceFrom(fields, CHOOSE i \in at : \A j \in at : i <= j),
                          <<SP>>)]

\* the loop of parseCmdAndMsg over the matches
RECURSIVE snippet_assign(_, _, _, _)
snippet_assign(matches, i, cFlagAll, acc) ==
    IF i > Len(matches) THEN acc
    ELSE LET match == matches[i]
         IN IF acc.mFlagFound
            THEN snippet_assign(matches, i + 1, cFlagAll, [acc EXCEPT !.cmd = cFlagAll])
            ELSE snippet_assign(matches, i + 1, cFlagAll,
                    [cmd |-> IF match[1] = S("-c") THEN match[2] ELSE acc.cmd,
                     msg |-> IF match[1] = S("-m") THEN match[2] ELSE acc.msg,
                     mFlagFound |-> match[1] = S("-m")])

\* parseCmdAndMsg: the message, the command, or an error
snippet_parseCmdAndMsg(command) ==
    LET fields == Fields(snippet_parseCommand(command).value)
        matches == snippet_matches(fields, 1, <<>>)
        c == snippet_cFlagAll(fields)
        r == snippet_assign(matches, 1, c.all,
                            [cmd |-> EMPTY, msg |-> EMPTY, mFlagFound |-> FALSE])
    IN IF matches = <<>> \/ ~c.found \/ r.cmd = EMPTY
       THEN [err |-> TRUE, msg |-> EMPTY, cmd |-> EMPTY]
       ELSE [err |-> FALSE, msg |-> r.msg, cmd |-> r.cmd]

\* getConfig: token and channel of the group; its error is not read by Execute
snippet_getConfig(config) ==
    IF config = "ok" THEN [botToken |-> snippet_botToken, channelID |-> snippet_channelID]
    ELSE [botToken |-> EMPTY, channelID |-> EMPTY]

\* executeCommand: a kubectl command needs the kubeconfig persisted first
snippet_executeCommand(cmd, env) ==
    IF HasPrefix(cmd, S("kubectl")) /\ ~env.kubeconfig
    THEN [err |-> TRUE, stdout |-> EMPTY, calls |-> <<>>]
    ELSE [err |-> env.command.err,
          stdout |-> IF env.command.err /\ ~HasPrefix(cmd, S("kubectl"))
                     THEN EMPTY ELSE env.command.stdout,
          calls |-> << [Call(IF HasPrefix(cmd, S("kubectl")) THEN "kubectl" ELSE "sh",
                             IF env.command.err THEN "failed" ELSE "ok")
                        EXCEPT !.cmd = cmd,
                               !.stdout = IF env.command.err THEN EMPTY
                                          ELSE env.command.stdout] >>]

\* variant of snippet_content that uploads the output as it is
snippet_content_raw(stdout) == stdout

\* the blob: the output, or the placeholder for an empty output
snippet_content(stdout) ==
    IF stdout = EMPTY THEN <<"empty", SP, "output">> ELSE stdout

\* fmt.Sprintf("%s.log", strconv.FormatInt(time.Now().Unix(), 10))
snippet_filename(now) == now \o <<".log">>

\* getUploadURL: the URL and the file id of the reply, or an error
snippet_getUploadURL(reply) ==
    CASE reply = "ok" -> [err |-> FALSE, uploadURL |-> snippet_uploadURL,
                          fileID |-> snippet_fileID]
      [] reply = "refused" -> [err |-> FALSE, uploadURL |-> EMPTY, fileID |-> EMPTY]
      [] OTHER -> [err |-> TRUE, uploadURL |-> EMPTY, fileID |-> EMPTY]

\* uploadFile: an error unless the POST is answered with status 200; a POST
\* to an empty URL is not sent
snippet_uploadFile(uploadURL, reply) ==
    IF uploadURL = EMPTY THEN [err |-> TRUE, reply |-> "unsent"]
    ELSE [err |-> reply # "ok", reply |-> reply]

\* completeUpload: an error unless the POST is answered with status 200
snippet_completeUpload(reply) == [err |-> reply \in {"neterr", "status500"}]

\* the text of the answer and of the default comment
snippet_resultSent(cmd, filename) ==
    <<"Command", SP>> \o cmd \o
    <<SP, "result sent, please check attachement with the following name:", SP>>
    \o filename

\* the comment of the attachment
snippet_message(msg, cmd, filename) ==
    IF msg # EMPTY
    THEN msg \o <<SP, "please check attachement with the following name:", SP>>
         \o filename
    ELSE snippet_resultSent(cmd, filename)

\* Execute of the snippet plugin in the environment env at clock reading now:
\* the answer and the calls made
snippet_Execute(command, env, now) ==
    LET p == snippet_parseCmdAndMsg(command)
        cfg == snippet_getConfig(env.config)
        ran == snippet_executeCommand(p.cmd, env)
        content == snippet_content(ran.stdout)
        filename == snippet_filename(now)
        h == snippet_getUploadURL(env.handle)
        handle == [Call("getUploadURL", env.handle)
                   EXCEPT !.token = cfg.botToken, !.filename = filename,
                          !.length = Len(content)]
        t == snippet_uploadFile(h.uploadURL, env.transfer)
        transfer == [Call("uploadFile", t.reply)
                     EXCEPT !.url = h.uploadURL, !.content = content]
        f == snippet_completeUpload(env.finalize)
        finalize == [Call("completeUpload", env.finalize)
                     EXCEPT !.token = cfg.botToken, !.fileID = h.fileID,
                            !.channel = cfg.channelID,
                            !.comment = snippet_message(p.msg, p.cmd, filename)]
    IN IF p.err
       THEN [out |-> ErrorValue(S("no valid command")), exec |-> <<>>]
       ELSE IF ~env.configs
       THEN [out |-> ErrorValue(S("while merging configuration")), exec |-> <<>>]
       ELSE IF env.config = "nogroup"
       THEN [out |-> Fatal(S("group not found")), exec |-> <<>>]
       ELSE IF ran.err
       THEN [out |-> ErrorValue(S("failed to run command")), exec |-> ran.calls]
       ELSE IF h.err
       THEN [out |-> ErrorValue(S("error getting upload URL")),
             exec |-> ran.calls \o <<handle>>]
       ELSE IF t.err
       THEN [out |-> ErrorValue(S("failed to upload file")),
             exec |-> ran.calls \o <<handle, transfer>>]
       ELSE IF f.err
       THEN [out |-> ErrorValue(S("error completing upload")),
             exec |-> ran.calls \o <<handle, transfer, finalize>>]
       ELSE [out |-> CodeBlockMessage(snippet_resultSent(p.cmd, filename)),
             exec |-> ran.calls \o <<handle, transfer, finalize>>]

\* ------------------------------------------------------------------------
\* snippet: specification
\* ------------------------------------------------------------------------
snippet_pluginName == S("snippet")

snippet_Commands ==
    {snippet_pluginName,
     Cmd(<<snippet_pluginName, S("-m"), S("hello")>>),
     Cmd(<<snippet_pluginName, S("-c"), S("date")>>),
     Cmd(<<snippet_pluginName, S("-m"), S("hello"), S("-c"), S("date")>>),
     Cmd(<<snippet_pluginName, S("-c"), S("kubectl"), S("get"), S("pods")>>),
     Cmd(<<snippet_pluginName, S("-m"), S("hello"), S("-c"), S("kubectl"), S("get"), S("pods")>>)}

\* the host calls Execute of the snippet plugin for conversation c
SnippetExecute(c, cmd, env, now) ==
    /\ proc = "up" /\ req = NoReq
    /\ \E r \in {snippet_Execute(cmd, env, now)} :
          /\ out' = r.out
          /\ exec' = r.exec
          /\ proc' = IF r.out.kind \in {"fatal", "panic"} THEN "dead" ELSE "up"
    /\ req' = Req(c, cmd, NilSlackState)
    /\ UNCHANGED <<state, jobDetails, clusterUp, handlers, created, files>>

snippet_Next ==
    \/ \E c \in Conv, cmd \in snippet_Commands, env \in snippet_Envs, now \in job_Clock :
          SnippetExecute(c, cmd, env, now)
    \/ Return

SpecSnippet == Init /\ [][snippet_Next]_vars

\* ------------------------------------------------------------------------
\* Properties
\* ------------------------------------------------------------------------
\* the number of fields of F equal to x
Count(F, x) == Cardinality({p \in 1..Len(F) : F[p] = x})

\* the fields c stand in F from position p on
IsSubAt(F, p, c) == p + Len(c) - 1 <= Len(F) /\ SubSeq(F, p, p + Len(c) - 1) = c

\* msg: the schema of the stored target
msg_Schema == msg_runScript(Get(msg_Session, first)).options

\* completeness as the design states it: every parameter but the help flag
\* has a non-empty entry under target-flag
isComplete(schema, sel) ==
    \A i \in 1..Len(schema) :
        schema[i].flags[1] # S("-h") =>
            Get(sel, Sprintf_s_dash_s(Get(sel, first), schema[i].flags[1])) # EMPTY

\* the same over a cronjob's args and the details of a request
job_isComplete(options, details) ==
    \A i \in 1..Len(options) :
        options[i].flag # S("-h") =>
            Get(details.params, Sprintf_s_dash_s(details.job, options[i].flag)) # EMPTY

\* job: the args discovery finds for the cronjob called name
job_Schema(name) ==
    LET jobs == job_getBotkubeJobs(clusterUp)
        found == {i \in 1..Len(jobs) : jobs[i].name = name}
    IN IF found = {} THEN <<>> ELSE jobs[CHOOSE i \in found : TRUE].args

\* C1: a plan rendered for a selected target holds the Run section exactly
\* when the selection is complete for the target's schema.  In msg4 the Run
\* section closes every plan, whatever is selected.
C1_RunSectionIffComplete ==
    (out.kind = "ui" /\ Get(msg_Session, first) # EMPTY) =>
        ((out.run # <<>>) <=> isComplete(msg4_ScriptOptions, msg_Session))

\* C2: the completeness check of the code is true exactly when every
\* parameter but the help flag has a non-empty entry under target-flag, for
\* every schema and every selection a request can carry.
C2_CompleteIffEveryNonHelpSet ==
    \A i \in 1..Len(job_CronJobs) :
        job_allSelectionsMade(jobDetails, job_CronJobs[i].args)
            = job_isComplete(job_CronJobs[i].args, jobDetails)

\* msg: the entries the render stores for target t when the map holds none:
\* "flag default" for each bool / dropdown option that declares a default
msg_Defaults(t) ==
    LET options == msg_runScript(t).options
        idx == {i \in 1..Len(options) :
                  /\ options[i].flags[1] # S("-h")
                  /\ options[i].type \in {"bool", "dropdown"}
                  /\ options[i].default # EMPTY}
        key(i) == Sprintf_s_dash_s(t, options[i].flags[1])
    IN [k \in {key(i) : i \in idx} |->
          LET i == CHOOSE j \in idx : key(j) = k
          IN Sprintf_s_s(options[i].flags[1], options[i].default)]

\* a select_first request naming a target other than the stored one is
\* answered with a plan
TargetChanged ==
    /\ req = NoReq /\ req'.conv # "none"
    /\ parseCommand(req'.cmd).action = S("select_first")
    /\ parseCommand(req'.cmd).value # Get(msg_Session, first)
    /\ out'.kind = "ui"

\* C3 (as the code has it): after a change of target the session holds the
\* new target and the defaults of its bool / dropdown parameters, nothing of
\* the selection before; the same select_first once more changes nothing.
C3_TargetChangeLeavesOnlyDefaults ==
    [][TargetChanged =>
        LET value == parseCommand(req'.cmd).value
            again == msg_Execute(state', req'.cmd, TRUE)
        IN /\ msg_Session' = Put(msg_Defaults(value), first, value)
           /\ again.state = state'
           /\ again.out = out']_vars

\* C3 (as stated): after a change of target no parameter entry is stored.
C3_TargetChangeEmptiesSelection ==
    [][TargetChanged => DOMAIN msg_Session' \ {first} = {}]_vars

\* a change of target to deploy: only the default of -e is stored
C3_Witness ==
    /\ req.cmd = Cmd(<<msg_pluginName, S("select_first"), S("deploy")>>)
    /\ out.kind = "ui"
    /\ msg_Session = Put(Put(EmptyMap, first, S("deploy")),
                         Sprintf_s_dash_s(S("deploy"), S("-e")), Sprintf_s_s(S("-e"), S("dev")))

\* msg: the fields the stored value of an option adds to the command
msg_Contribution(option) ==
    Fields(Get(msg_Session, Sprintf_s_dash_s(Get(msg_Session, first), option.flags[1])))

\* C4: in every Run section, the values of two set parameters stand in the
\* command in the order the schema declares the parameters, whichever was
\* selected first.
C4_ArgumentsInSchemaOrder ==
    (out.kind = "ui" /\ out.run # <<>>) =>
        LET F == Fields(out.run[1].preview)
            c(i) == msg_Contribution(msg_Schema[i])
        IN \A i, j \in 1..Len(msg_Schema) :
              (i < j /\ c(i) # <<>> /\ c(j) # <<>>) =>
                  \E p, q \in 1..Len(F) :
                      /\ IsSubAt(F, p, c(i))
                      /\ IsSubAt(F, q, c(j))
                      /\ p + Len(c(i)) <= q

\* report is complete by a selection of -e made after the one of -v, the
\* reverse of the schema's order
C4_Witness ==
    /\ out.kind = "ui" /\ out.run # <<>>
    /\ Get(msg_Session, first) = S("report")
    /\ parseCommand(req.cmd).action = S("select_dynamic")
    /\ Fields(parseCommand(req.cmd).value)[1] = Sprintf_s_dash_s(S("report"), S("-e"))
    /\ Has(msg_Session, Sprintf_s_dash_s(S("report"), S("-v")))

\* C5: in every Run section, a boolean parameter stored as true stands in
\* the command as its bare flag, once, and one stored as false does not
\* stand in it at all.
C5_BooleanRoundTrip ==
    (out.kind = "ui" /\ out.run # <<>>) =>
        LET F == Fields(out.run[1].preview)
        IN \A i \in 1..Len(msg_Schema) :
              LET flag == msg_Schema[i].flags[1]
                  stored == Get(msg_Session, Sprintf_s_dash_s(Get(msg_Session, first), flag))
              IN (msg_Schema[i].type = "bool" /\ flag # S("-h")) =>
                    /\ stored = Sprintf_s_s(flag, S("true")) =>
                          /\ Count(F, flag) = 1
                          /\ \A p \in 1..Len(F) - 1 : F[p] = flag => F[p + 1] # S("true")
                    /\ stored = Sprintf_s_s(flag, S("false")) => Count(F, flag) = 0

\* C6: in every Run section, a set dropdown or text parameter adds its flag
\* to the command once, with the chosen value right after it.  The job
\* assembler puts the flag before a stored value that already starts with it.
C6_FlagValueOnce ==
    (out.kind = "ui" /\ out.run # <<>>) =>
        LET F == Fields(out.run[1].preview)
            options == job_Schema(jobDetails.job)
        IN \A i \in 1..Len(options) :
              LET flag == options[i].flag
                  stored == Fields(Get(jobDetails.params,
                                       Sprintf_s_dash_s(jobDetails.job, flag)))
                  value == IF options[i].type = "text" THEN stored ELSE Tail(stored)
              IN (options[i].type \in {"dropdown", "text"} /\ stored # <<>>) =>
                    /\ Count(F, flag) = 1
                    /\ \E p \in 1..Len(F) : F[p] = flag /\ IsSubAt(F, p + 1, value)

\* C7: after a render, every parameter of the target's schema that declares
\* a default has a non-empty entry, so it counts as set, a text parameter
\* too.  The render stores no default for a text parameter.
C7_DefaultsCountAsSet ==
    out.kind = "ui" =>
        LET options == job_Schema(jobDetails.job)
        IN \A i \in 1..Len(options) :
              options[i].default # EMPTY =>
                  Get(jobDetails.params,
                      Sprintf_s_dash_s(jobDetails.job, options[i].flag)) # EMPTY

\* the requests of the scenario: backup-job is chosen, prod is typed into the
\* input of -n, the select of -i is left alone
C8_SlackState == job_ButtonState

C8_SelectParam ==
    Cmd(<<job_pluginName, S("select_dynamic"), Sprintf_s_dash_s(S("backup-job"), S("-n")),
          S("-n"), S("prod")>>)

C8_Selected ==
    /\ req.cmd = C8_SelectParam /\ req.slackState = C8_SlackState
    /\ clusterUp /\ out.kind = "ui"

C8_RunCommand ==
    Cmd(<<job_pluginName, S("run"), S("backup-job"), S("default"), S("-n"), S("prod")>>)

C8_KeyN == Sprintf_s_dash_s(S("backup-job"), S("-n"))
C8_KeyI == Sprintf_s_dash_s(S("backup-job"), S("-i"))

C9_DispatchOnlyWhenComplete ==
    exec # <<>> =>
        LET d == job_showBothSelects(jobDetails, clusterUp).details
        IN /\ d.job # EMPTY
           /\ job_Schema(d.job) # <<>>
           /\ job_isComplete(job_Schema(d.job), d)

\* msg: the session a request of conversation c works on: the session id
\* Execute assigns, which does not depend on the request
msg_sessionIDOf(c) == msg_sessionID

\* msg: the selection a request of conversation c would read
msg_SelectionOf(c) ==
    IF Has(state, msg_sessionIDOf(c)) THEN state[msg_sessionIDOf(c)] ELSE EmptyMap

\* C10: a request of one conversation never changes the selection stored for
\* another conversation.  Every conversation works on the same session.
C10_NoSharingAcrossConversations ==
    [][\A c \in Conv :
          (req'.conv # "none" /\ req'.conv # c) =>
              msg_SelectionOf(c)' = msg_SelectionOf(c)]_vars

\* msg: schema discovery (runScript) fails for the target the request selects
msg_DiscoveryFails(cmd) ==
    /\ parseCommand(cmd).action = S("select_first")
    /\ msg_runScript(parseCommand(cmd).value).err

\* C12: when schema discovery fails for a request, the answer to that request
\* is one user-visible error message, without dropdowns and without a Run
\* section, and the process is still there to deliver it.  In msg the failure
\* of runScript ends in log.Fatalf: the request gets no message at all.
C12_DiscoveryFailureIsOneErrorMessage ==
    (req.conv # "none" /\ msg_DiscoveryFails(req.cmd)) =>
        /\ proc = "up"
        /\ out.kind = "code"
        /\ out.selects = <<>> /\ out.inputs = <<>> /\ out.run = <<>>

\* C13: a select_target or select_param request whose discovery step fails
\* leaves the stored target and parameter entries as they were before the
\* request.  In msg the store is written before runScript is called, and the
\* exit that follows takes the whole store with it.
C13_DiscoveryFailureKeepsSelection ==
    [][(req.conv = "none" /\ req'.conv # "none" /\ msg_DiscoveryFails(req'.cmd)) =>
          msg_SelectionOf(req'.conv)' = msg_SelectionOf(req'.conv)]_vars

\* msg: the keys under which the parameters of the stored target are kept
msg_SchemaKeys ==
    {Sprintf_s_dash_s(Get(msg_Session, first), msg_Schema[i].flags[1]) :
        i \in 1..Len(msg_Schema)}

\* msg: the request is a select_param whose key is no parameter of the stored
\* target, while the schema of that target can be discovered
msg_UnknownParam(cmd) ==
    /\ parseCommand(cmd).action = S("select_dynamic")
    /\ Fields(parseCommand(cmd).value) # <<>>
    /\ ~msg_runScript(Get(msg_Session, first)).err
    /\ Fields(parseCommand(cmd).value)[1] \notin msg_SchemaKeys

\* C14: a select_param whose key is not a parameter of the current target's
\* schema is a no-op: the selection state is unchanged and the handler does
\* not crash.  In msg the entry is stored under the unknown key.
C14_UnknownParamIsNoOp ==
    [][(req.conv = "none" /\ req'.conv # "none" /\ msg_UnknownParam(req'.cmd)) =>
          /\ proc' = "up"
          /\ msg_Session' = msg_Session]_vars

\* job: the request is a run action naming a cronjob and a namespace
job_IsRun(cmd) ==
    /\ parseCommand(cmd).action = S("run")
    /\ Len(Fields(parseCommand(cmd).value)) >= 2

\* job: the cluster command of the run request cmd fails: the cluster is
\* unreachable, or it has no such cronjob
job_DispatchFails(cmd) ==
    /\ job_IsRun(cmd)
    /\ ~job_cronJobExists(clusterUp, Fields(parseCommand(cmd).value)[1],
                          Fields(parseCommand(cmd).value)[2])

\* C15: when the dispatched command fails to execute, the request is answered
\* with a message that reports the failure, so that the user can run again.
\* In job the failed kubectl leaves no JSON to patch and the handler panics.
C15_DispatchFailureIsReported ==
    (req.conv # "none" /\ job_DispatchFails(req.cmd)) =>
        /\ out.kind = "code"
        /\ out.text # Sprintf_s_s(Sprintf_s_s(S("Job"),
                          Sprintf_s_dash_s(Fields(parseCommand(req.cmd).value)[1],
                                           S("1700000000"))), S("is started"))

\* C16: no error met while handling a request ends the plugin process: every
\* request that is well formed ends with a message, and the process stays up.
\* In job a failed cluster command ends the process.
C16_ErrorsNeverEndTheProcess ==
    (req.conv # "none" /\ (parseCommand(req.cmd).action = S("run") => job_IsRun(req.cmd))) =>
        proc = "up"

\* msg: the answer to a request from a platform without interactivity
msg_NotSupported ==
    CodeBlockMessage(S("Interactivity for this platform is not supported"))

\* the tokens of a command after the first n, joined by single spaces
Payload(cmd, n) == Join(SliceFrom(Fields(cmd), n), <<SP>>)

snippet_CallsOf(op) == {i \in 1..Len(exec) : exec[i].op = op}

\* C18: the attachment is delivered in three steps in order: the blob is
\* transferred only after the upload handle was obtained, the upload is
\* finalized only after the transfer succeeded, a step that fails is the last
\* one attempted, and the request is answered with the success message only
\* when no step failed.  In snippet a step that Slack refuses in a reply of
\* status 200 is taken for a success.
C18_DeliveryProtocol ==
    (req.conv # "none" /\ proc = "up") =>
        /\ \A i \in snippet_CallsOf("uploadFile") :
              \E j \in snippet_CallsOf("getUploadURL") : j < i /\ exec[j].reply = "ok"
        /\ \A i \in snippet_CallsOf("completeUpload") :
              \E j \in snippet_CallsOf("uploadFile") : j < i /\ exec[j].reply = "ok"
        /\ \A i \in 1..Len(exec) : exec[i].reply # "ok" => i = Len(exec)
        /\ out.kind = "code" =>
              /\ \A i \in 1..Len(exec) : exec[i].reply = "ok"
              /\ snippet_CallsOf("completeUpload") # {}
        /\ out.kind \in {"code", "error"}

\* C19: for a command that executed successfully, the blob transferred is the
\* standard output of the command, or the placeholder when the output is
\* empty, so it is never empty; the upload handle is asked for every such
\* command, and the length announced there is the length of the blob.
C19_BlobIsTheOutput ==
    (req.conv # "none" /\ exec # <<>> /\ exec[1].reply = "ok") =>
        /\ snippet_CallsOf("getUploadURL") = {2}
        /\ \A j \in snippet_CallsOf("uploadFile") :
              /\ exec[j].content = IF exec[1].stdout = EMPTY
                                   THEN <<"empty", SP, "output">>
                                   ELSE exec[1].stdout
              /\ exec[j].content # EMPTY
              /\ exec[2].length = Len(exec[j].content)
        /\ exec[2].length > 0

\* C19: a command that printed nothing was run and its blob was transferred
C19_Witness ==
    /\ req.conv # "none" /\ Len(exec) >= 3
    /\ exec[1].op = "kubectl" /\ exec[1].reply = "ok" /\ exec[1].stdout = EMPTY
    /\ exec[3].op = "uploadFile" /\ exec[3].reply = "ok"
    /\ exec[3].content = <<"empty", SP, "output">>

\* msg: the calls h1, h2 were delivered in this order while h1 had not
\* returned, and both have ended
msg_BothEnded(h1, h2) ==
    /\ handlers[h1].seq = 1 /\ handlers[h2].seq = 2
    /\ \/ handlers[h1].pc = "done" /\ handlers[h2].pc = "done"
       \/ proc = "dead"

\* msg: the map and the responses when the call of h1 runs to its end and the
\* call of h2 follows it, from the map at the delivery of h1
msg_Serial(h1, h2) ==
    LET r1 == msg_Execute(handlers[h1].base, handlers[h1].cmd, TRUE)
        r2 == msg_Execute(r1.state, handlers[h2].cmd, TRUE)
    IN [state |-> r2.state, out1 |-> r1.out, out2 |-> r2.out]

\* C11: two requests of one conversation that the host delivers side by side
\* are serialized: when both have ended, the store is the one that results
\* from the two requests applied one after the other in the order of
\* delivery, and each request got the response of that serial run.  In msg
\* nothing orders the goroutines in the map.
C11_ConcurrentRequestsSerialized ==
    \A h1, h2 \in Handlers :
        (/\ msg_BothEnded(h1, h2)
         /\ msg_Serial(h1, h2).out1.kind = "ui"
         /\ msg_Serial(h1, h2).out2.kind = "ui") =>
            /\ proc = "up"
            /\ state = msg_Serial(h1, h2).state
            /\ handlers[h1].out = msg_Serial(h1, h2).out1
            /\ handlers[h2].out = msg_Serial(h1, h2).out2

\* C20: every request gets its response even when the script it starts never
\* exits: a call that was delivered ends, unless the process has exited.  In
\* msg runScript waits for the script without a timeout and without the
\* context of the call.
C20_EveryRequestIsAnswered ==
    \A h \in Handlers :
        (handlers[h].pc = "session") ~> (handlers[h].pc = "done" \/ proc = "dead")

\* C21: every plan rendered after a select_target or select_param action
\* holds the selector of the target first, and the option pre-selected there
\* is the stored target when one is stored, and none otherwise: never an
\* empty target, never a target the selector does not offer.  In job the
\* pre-selected option is built from details.job whatever it holds.
C21_TargetSelectorShowsStoredTarget ==
    (req.conv # "none" /\ out.kind = "ui") =>
        /\ Len(out.selects) >= 1
        /\ out.selects[1].command = job_cmdPrefix(S("select_first"))
        /\ out.selects[1].initial =
              IF jobDetails.job # EMPTY THEN Option(jobDetails.job) ELSE NilOption
        /\ out.selects[1].initial.set =>
              \E i \in 1..Len(out.selects[1].options) :
                  out.selects[1].options[i] = out.selects[1].initial.value

\* the values a dropdown has to offer for a bool / dropdown parameter:
\* "flag value" for each allowed value, true and false for a boolean
OfferedValues(flag, type, values) ==
    LET vs == IF type = "bool" THEN <<S("true"), S("false")>> ELSE values
    IN [i \in 1..Len(vs) |-> flag \o <<SP>> \o vs[i]]

\* C22: every non-text parameter of the stored target has a dropdown that
\* offers the allowed values as "flag value", and whose pre-selected option is
\* the value stored for the parameter if there is one, else its default, else
\* none.  In msg the pre-selected option is the default, whatever is stored.
C22_DropdownShowsStoredValue ==
    (req.conv # "none" /\ out.kind = "ui") =>
        \A i \in 1..Len(msg_Schema) :
            LET option == msg_Schema[i]
                flag == option.flags[1]
                flagKey == Sprintf_s_dash_s(Get(msg_Session, first), flag)
            IN (flag # S("-h") /\ option.type \in {"bool", "dropdown"}) =>
                  \E k \in 2..Len(out.selects) :
                      /\ out.selects[k].command =
                            msg_cmdPrefix(Sprintf_s_s(S("select_dynamic"), flagKey))
                      /\ out.selects[k].options =
                            OfferedValues(flag, option.type, option.values)
                      /\ out.selects[k].initial =
                            IF Has(msg_Session, flagKey)
                            THEN Option(msg_Session[flagKey])
                            ELSE IF option.default # EMPTY
                            THEN Option(flag \o <<SP>> \o option.default)
                            ELSE NilOption

\* msg: the request being answered is an interactive select_target or
\* select_param that was answered with a plan
msg_Rendered ==
    /\ req.conv = "none" /\ req'.conv # "none"
    /\ out'.kind = "ui"

\* msg: the key and the value a select_param request writes
msg_ParamKey(cmd) == Fields(cmd)[3]
msg_ParamValue(cmd) == Join(SliceFrom(Fields(cmd), 3), <<SP>>)

\* msg: what a select_param request leaves under its key: the value, or the
\* key itself when the command carries no value
msg_Written(cmd) ==
    IF msg_ParamValue(cmd) # EMPTY THEN msg_ParamValue(cmd) ELSE msg_ParamKey(cmd)

\* C23: a render stores the default of a parameter (as "flag default") only
\* under a key the store has no entry for: an entry that is stored keeps its
\* value through every later render of the same target, unless the request
\* itself selects that parameter, and the entries a render adds are defaults.
C23_DefaultNeverReplacesChoice ==
    [][(msg_Rendered /\ Get(msg_Session', first) = Get(msg_Session, first)) =>
          /\ \A k \in DOMAIN msg_Session :
                /\ Has(msg_Session', k)
                /\ msg_Session'[k] =
                      IF /\ parseCommand(req'.cmd).action = S("select_dynamic")
                         /\ k = msg_ParamKey(req'.cmd)
                      THEN msg_Written(req'.cmd)
                      ELSE msg_Session[k]
          /\ \A k \in DOMAIN msg_Session' \ DOMAIN msg_Session :
                \/ /\ parseCommand(req'.cmd).action = S("select_dynamic")
                   /\ k = msg_ParamKey(req'.cmd)
                \/ /\ Has(msg_Defaults(Get(msg_Session, first)), k)
                   /\ msg_Session'[k] = msg_Defaults(Get(msg_Session, first))[k]]_vars

\* C23: the user's choice for -e of deploy, other than the default, is in the
\* store after a later render for another parameter
C23_Witness ==
    /\ req.conv # "none" /\ out.kind = "ui"
    /\ Get(msg_Session, first) = S("deploy")
    /\ Get(msg_Session, Sprintf_s_dash_s(S("deploy"), S("-e"))) = <<"-e", SP, "prod">>
    /\ parseCommand(req.cmd).action = S("select_dynamic")
    /\ msg_ParamKey(req.cmd) = Sprintf_s_dash_s(S("deploy"), S("-t"))

\* C24: the plan is a function of the schema and the selection: rendering
\* once more from the store a render has left yields the same plan and leaves
\* the store as it is.
C24_RenderIsIdempotent ==
    [][msg_Rendered =>
          /\ msg_showBothSelects(msg_Session').out = out'
          /\ msg_showBothSelects(msg_Session').state = msg_Session'
          /\ msg_showBothSelects(msg_showBothSelects(msg_Session').state).out = out']_vars

\* C24: a plan that holds a pre-selected default, which the render has stored
C24_Witness ==
    /\ req.conv # "none" /\ out.kind = "ui"
    /\ Get(msg_Session, first) = S("deploy")
    /\ Len(out.selects) = 2 /\ out.selects[2].initial.set
    /\ Has(msg_Session, Sprintf_s_dash_s(S("deploy"), S("-e")))


\* C25: a parameter whose flag is the help flag -h never reaches the user:
\* the plan has no dropdown and no text input for it, the Run section does
\* not wait for it, and the command of the Run section never holds the flag,
\* whatever was stored under its key.
C25_HelpFlagNeverReachesUser ==
    (req.conv # "none" /\ out.kind = "ui") =>
        \A i \in 1..Len(msg_Schema) :
            LET flagKey == Sprintf_s_dash_s(Get(msg_Session, first), S("-h"))
                command == msg_cmdPrefix(Sprintf_s_s(S("select_dynamic"), flagKey))
            IN msg_Schema[i].flags[1] = S("-h") =>
                  /\ \A k \in 1..Len(out.selects) : out.selects[k].command # command
                  /\ \A k \in 1..Len(out.inputs) :
                        ~IsSubAt(out.inputs[k].command, 1, command)
                  /\ ((out.run # <<>>) <=> isComplete(msg_Schema, msg_Session))
                  /\ out.run # <<>> => Count(Fields(out.run[1].button), S("-h")) = 0


\* the element a parameter of cronjob job is to be rendered with: a text
\* input for a text parameter, a dropdown for a boolean or enumerated one
job_Element(job, option) ==
    LET flagKey == Sprintf_s_dash_s(job, option.flag)
    IN IF option.type = "text"
       THEN [kind |-> "input",
             command |-> job_cmdPrefix(Sprintf_s_s(S("select_dynamic"),
                                         Sprintf_s_s(flagKey, option.flag)) \o <<SP>>)]
       ELSE [kind |-> "select",
             command |-> job_cmdPrefix(Sprintf_s_s(S("select_dynamic"), flagKey))]

\* the elements of a schema, in schema order
job_Elements(job, options) ==
    [i \in 1..Len(options) |-> job_Element(job, options[i])]

\* the parameter elements of a plan in the order the message shows them: the
\* dropdowns of the first section after the Job Name select, then the text
\* inputs of the second section
job_Layout(o) ==
    [i \in 1..Len(o.selects) - 1 |->
        [kind |-> "select", command |-> o.selects[i + 1].command]]
    \o [i \in 1..Len(o.inputs) |->
        [kind |-> "input", command |-> o.inputs[i].command]]

IsSelectElement(e) == e.kind = "select"
IsInputElement(e) == e.kind = "input"

\* C26 as stated: the parameter elements of a plan are the elements of the
\* schema of the selected cronjob, one per parameter, in schema order
C26_ElementsInSchemaOrder ==
    (req.conv # "none" /\ out.kind = "ui") =>
        job_Layout(out) = job_Elements(jobDetails.job, job_Schema(jobDetails.job))

\* C26: every parameter of the schema of the selected cronjob is rendered
\* exactly once with the element of its type; the dropdowns come first, in
\* schema order, and the text inputs follow them, in schema order.
C26_ElementsByTypeThenSchemaOrder ==
    (req.conv # "none" /\ out.kind = "ui") =>
        LET elements == job_Elements(jobDetails.job, job_Schema(jobDetails.job))
        IN job_Layout(out) = SelectSeq(elements, IsSelectElement)
                             \o SelectSeq(elements, IsInputElement)

\* C26: a plan for cronjob backup-job, whose text parameter -n precedes its
\* boolean parameter -i in the schema: one dropdown, then one text input
C26_Witness ==
    /\ req.conv # "none" /\ out.kind = "ui"
    /\ jobDetails.job = S("backup-job")
    /\ Len(out.selects) = 2 /\ Len(out.inputs) = 1


\* C27: select_param k v, with a value v, on a key of the stored target's
\* schema is an upsert with a frame: afterwards the store holds v under k, whatever it held
\* before, and the stored target and every other entry are as they were.
C27_SelectParamIsUpsertWithFrame ==
    [][(/\ msg_Rendered
        /\ parseCommand(req'.cmd).action = S("select_dynamic")
        /\ msg_ParamKey(req'.cmd) \in msg_SchemaKeys
        /\ msg_ParamValue(req'.cmd) # EMPTY) =>
          /\ Has(msg_Session', msg_ParamKey(req'.cmd))
          /\ msg_Session'[msg_ParamKey(req'.cmd)] = msg_ParamValue(req'.cmd)
          /\ Get(msg_Session', first) = Get(msg_Session, first)
          /\ \A k \in DOMAIN msg_Session \ {msg_ParamKey(req'.cmd)} :
                Has(msg_Session', k) /\ msg_Session'[k] = msg_Session[k]]_vars

\* C27: select_param deploy--t has been answered; the value prod it wrote
\* is stored beside the target and the entry of deploy--e
C27_Witness ==
    /\ req.conv # "none" /\ out.kind = "ui"
    /\ Fields(req.cmd) = <<S("msg"), S("select_dynamic"),
                           Sprintf_s_dash_s(S("deploy"), S("-t")), S("prod")>>
    /\ Get(msg_Session, first) = S("deploy")
    /\ Get(msg_Session, Sprintf_s_dash_s(S("deploy"), S("-t"))) = S("prod")
    /\ Has(msg_Session, Sprintf_s_dash_s(S("deploy"), S("-e")))


\* msg: the request is an interactive select_target naming the target that
\* is stored already
msg_SameTarget ==
    /\ req.conv = "none" /\ req'.conv # "none"
    /\ out'.kind = "ui"
    /\ parseCommand(req'.cmd).action = S("select_first")
    /\ Has(msg_Session, first)
    /\ parseCommand(req'.cmd).value = msg_Session[first]

\* C28: select_target with the target that is stored already clears nothing:
\* every entry of the store is still there with its value afterwards.
C28_SameTargetClearsNothing ==
    [][msg_SameTarget =>
          \A k \in DOMAIN msg_Session :
              Has(msg_Session', k) /\ msg_Session'[k] = msg_Session[k]]_vars

\* C28: select_target deploy has been answered while the store kept the
\* entries chosen for deploy before it, -e prod among them
C28_Witness ==
    /\ req.conv # "none" /\ out.kind = "ui"
    /\ Fields(req.cmd) = <<S("msg"), S("select_first"), S("deploy")>>
    /\ Get(msg_Session, Sprintf_s_dash_s(S("deploy"), S("-e"))) = <<"-e", SP, "prod">>
    /\ Has(msg_Session, Sprintf_s_dash_s(S("deploy"), S("-t")))


\* msg: the Run section the design gives a selection: the assembled command
\* when the selection is complete for its target, no section otherwise
msg_RunOf(sel) ==
    LET schema == msg_runScript(Get(sel, first)).options
    IN IF isComplete(schema, sel)
       THEN <<RunSection(msg_buildFinalCommand(sel, schema))>>
       ELSE <<>>

\* msg: the entries of a selection that belong to its target: the target
\* and what is stored under the keys of the target's parameters
msg_OwnEntries(sel) ==
    LET t == Get(sel, first)
        schema == msg_runScript(t).options
        keys == {first} \cup {Sprintf_s_dash_s(t, schema[i].flags[1]) : i \in 1..Len(schema)}
    IN [k \in DOMAIN sel \cap keys |-> sel[k]]

\* C29: values chosen for one target never reach the command of another.
\* The plan that answers a change of target, to a new target or back to an
\* earlier one, has the Run section of the defaults of that target alone;
\* and the Run section of every plan is the one of the entries stored under
\* the parameters of the current target, whatever else the store holds.
C29_NoLeakAcrossTargets ==
    [][/\ TargetChanged =>
            LET value == parseCommand(req'.cmd).value
            IN out'.run = msg_RunOf(Put(msg_Defaults(value), first, value))
       /\ msg_Rendered => out'.run = msg_RunOf(msg_OwnEntries(msg_Session'))]_vars

\* C29: the target has been changed to deploy: the plan has no Run section
\* and the store holds the target and the default of -e, nothing else
C29_Witness ==
    /\ req.conv # "none" /\ out.kind = "ui"
    /\ Fields(req.cmd) = <<S("msg"), S("select_first"), S("deploy")>>
    /\ out.run = <<>>
    /\ DOMAIN msg_Session = {first, Sprintf_s_dash_s(S("deploy"), S("-e"))}


\* C30: in every Run section the command of the preview code block and the
\* command of the Run button are the same string, the one assembled from the
\* selection.  In msg2 the code block shows the result of an internal
\* command, and the button carries the assembled one.
C30_PreviewIsButtonCommand ==
    (req.conv # "none" /\ out.kind = "ui" /\ out.run # <<>>) =>
        /\ out.run[1].preview = out.run[1].button
        /\ out.run[1].button =
              Cmd(<<S("kubectl"), S("get"), Get(msg_Session, first),
                    S("-n"), Get(msg_Session, second)>>)


\* job: the payload of a run command has fewer than the two tokens, cronjob
\* and namespace, the run action reads
job_ShortPayload(cmd) ==
    /\ parseCommand(cmd).action = S("run")
    /\ Len(Fields(parseCommand(cmd).value)) < 2

\* C31: a command whose payload is too short for its action is answered with
\* a response, without an out-of-bounds failure, and leaves the process
\* running.  In job `run` takes fields[2:] of a payload of any length.
C31_ShortPayloadIsAnswered ==
    (req.conv # "none" /\ job_ShortPayload(req.cmd)) =>
        /\ out.kind \notin {"panic", "fatal", "none"}
        /\ proc = "up"


\* job: discovery lists a cronjob called name
job_Discovered(name) ==
    \E i \in 1..Len(job_getBotkubeJobs(clusterUp)) :
        job_getBotkubeJobs(clusterUp)[i].name = name

\* C32: a plan has no Run section when no target is selected or when the
\* selected target is no cronjob discovery lists.  In job the completeness
\* check runs over the args of no cronjob and holds vacuously.
C32_NoRunSectionWithoutSchema ==
    (/\ req.conv # "none" /\ out.kind = "ui"
     /\ (jobDetails.job = EMPTY \/ ~job_Discovered(jobDetails.job))) =>
        out.run = <<>>


\* the tokens of a list of command parts, in order
RECURSIVE Tokens(_)
Tokens(parts) ==
    IF parts = <<>> THEN <<>> ELSE Fields(Head(parts)) \o Tokens(Tail(parts))

\* job: the namespace discovery reports for the cronjob called name
job_NamespaceOf(name) ==
    LET jobs == job_getBotkubeJobs(clusterUp)
    IN jobs[CHOOSE i \in 1..Len(jobs) : jobs[i].name = name].namespace

\* C33: the command of a Run button rendered for a discovered cronjob,
\* delivered back to Execute, is routed to the run action and read as the
\* cronjob, the namespace and the argument tokens, in order, that
\* buildFinalCommand put into it.
C33_RunButtonRoundTrip ==
    (/\ req.conv # "none" /\ out.kind = "ui" /\ out.run # <<>>
     /\ job_Discovered(jobDetails.job)) =>
        \A now \in job_Clock :
            LET back == job_Execute(out.run[1].button, NilSlackState, clusterUp, now)
                parts == job_commandParts(job_Schema(jobDetails.job), jobDetails).parts
            IN /\ parseCommand(out.run[1].button).action = S("run")
               /\ Len(back.exec) = 2
               /\ back.exec[1].cronjob = jobDetails.job
               /\ back.exec[1].namespace = job_NamespaceOf(jobDetails.job)
               /\ back.exec[2].cronjob = jobDetails.job
               /\ back.exec[2].namespace = job_NamespaceOf(jobDetails.job)
               /\ back.exec[2].args = Tokens(parts)

\* C33: a Run button for cronjob deploy whose command carries the arguments
\* of two parameters, the typed value of -t being two words
C33_Witness ==
    /\ req.conv # "none" /\ out.kind = "ui" /\ out.run # <<>>
    /\ jobDetails.job = S("deploy") /\ clusterUp
    /\ Len(job_commandParts(job_Schema(S("deploy")), jobDetails).parts) = 2
    /\ Get(jobDetails.params, Sprintf_s_dash_s(S("deploy"), S("-t"))) = <<"eu", SP, "west">>


\* the plain-command fallback of Execute
IsPlainCommand(o) ==
    o.kind = "code" /\ HasPrefix(o.text, S("Plain command:"))

\* C34: every command an element of a rendered response emits is routed by
\* Execute to the handler of its step, never to the plain-command fallback.
\* In cmdmsg the handlers look for `select job`, `select param` and
\* `run job` at the start of a command that starts with the plugin name.
C34_EmittedCommandsAreRouted ==
    (req.conv # "none" /\ out.kind \in {"initial", "ui"}) =>
        \A cmd \in cmdmsg_Emitted(out) :
            ~IsPlainCommand(cmdmsg_Execute(state, cmd, TRUE).out)


\* job: the request on display is a select_target or select_param
job_IsSelect ==
    /\ req.conv # "none"
    /\ parseCommand(req.cmd).action \in {S("select_first"), S("select_dynamic")}

\* C35: for every selection that select_target / select_param requests
\* produce and that is complete for a discovered cronjob, buildFinalCommand
\* returns a command, which the plan carries: no stored value of a boolean
\* parameter lacks the value component the assembler reads.
C35_AssemblySucceedsWhenComplete ==
    (/\ job_IsSelect
     /\ job_Discovered(jobDetails.job)
     /\ job_allSelectionsMade(jobDetails, job_Schema(jobDetails.job))) =>
        LET code == job_buildFinalCommand(job_Schema(jobDetails.job),
                                          job_NamespaceOf(jobDetails.job), jobDetails)
        IN /\ ~code.panic
           /\ proc = "up" /\ out.kind = "ui"
           /\ out.run = <<RunSection(code.code)>>
           /\ \A i \in 1..Len(job_Schema(jobDetails.job)) :
                 LET option == job_Schema(jobDetails.job)[i]
                 IN option.type = "bool" =>
                       Len(Fields(Get(jobDetails.params,
                              Sprintf_s_dash_s(jobDetails.job, option.flag)))) >= 2

\* C35: a complete selection for cronjob backup-job, whose boolean
\* parameter -i is stored as "-i true", has been answered
C35_Witness ==
    /\ job_IsSelect /\ out.kind = "ui" /\ out.run # <<>>
    /\ jobDetails.job = S("backup-job") /\ clusterUp
    /\ Get(jobDetails.params, Sprintf_s_dash_s(S("backup-job"), S("-i"))) = <<"-i", SP, "true">>


\* msg: the request is a select_param that names a parameter of the stored
\* target and carries no value, and is answered with a plan
msg_EmptyValue ==
    /\ msg_Rendered
    /\ parseCommand(req'.cmd).action = S("select_dynamic")
    /\ Len(Fields(req'.cmd)) = 3
    /\ msg_ParamKey(req'.cmd) \in msg_SchemaKeys

\* C36: a select_param with a key and an empty value is no selection: a
\* parameter that had no entry has no non-empty entry afterwards, and the
\* plan has no Run section.  In msg the key itself is stored as the value.
C36_EmptyValueIsNoSelection ==
    [][(msg_EmptyValue /\ Get(msg_Session, msg_ParamKey(req'.cmd)) = EMPTY) =>
          /\ Get(msg_Session', msg_ParamKey(req'.cmd)) = EMPTY
          /\ out'.run = <<>>]_vars


\* C37: no two run dispatches apply jobs of the same name.  In job the name
\* is the cronjob and the second of the clock, so two dispatches on one
\* cronjob within a second generate one name.
C37_JobNamesDiffer ==
    \A i, j \in 1..Len(created) : i # j => created[i] # created[j]

\* C38: when a request has ended, by a return, a panic or a fatal error, the
\* kubeconfig file and the manifest file it wrote are deleted.  In job
\* log.Fatalf on a failed manifest write exits with the kubeconfig on disk.
C38_FilesDeletedAtEnd ==
    req.conv # "none" => files = {}

====
